---------------------------- MODULE Spec2Model ----------------------------
(***************************************************************************)
(* Extraction / deduplication / graph-write pipeline of                    *)
(* populate_aircraft_db (extractor.py), modelled as a state machine.       *)
(*                                                                         *)
(* Python values are tagged records [k |-> kind, v |-> payload]:           *)
(*   "absent" (key not in the dict), "null" (None), "str" (payload: the    *)
(*   sequence of its characters), "num", "list" (payload: sequence of      *)
(*   values), "obj" (payload: record of values).                           *)
(* An exception is a value [k |-> "exc", v |-> <name>].                     *)
(***************************************************************************)
EXTENDS Integers, Sequences, FiniteSets, TLC

VARIABLES
    nodes,            \* graph store: set of [id, label, props]
    edges,            \* graph store: set of [id, type, src, dst]
    nextId,           \* next element id the store hands out
    pc,               \* position of run_extraction
    chunks,           \* rows returned by fetch_chunks
    all_extractions,  \* run_extraction's list of per-chunk extractions
    deduplicated,     \* result of _collect_and_deduplicate
    exc,              \* exception that escaped run_extraction ("none" if none)
    responses,        \* what the LLM answered for each chunk of this run
    runs,             \* number of commands started (run_extraction, embed, clear)
    calls,            \* number of provider calls made (LLM, embedding)
    doc_pos,          \* position in DOCUMENTS of the meta process_document works on
    split_chunks,     \* process_document: the windows split_text returned
    chunk_data,       \* process_document: (element id, text) of the document's chunks
    ids,              \* generate_and_store_embeddings: ids of the chunks embedded
    embeddings,       \* generate_and_store_embeddings: their vectors
    context,          \* ContextPrependingSplitter.context
    provider,         \* what the splitter and the providers return, when it is
                      \* fixed for the behaviour (<<>> when it is not)
    labels_to_clear,  \* clear loops: the label sets still to sweep, current one first
    deleted_total,    \* clear loops: nodes deleted so far
    count,            \* clear loops: what the last delete statement returned
    batch_limit,      \* clear loops: the LIMIT of the delete statement
    elapsed,          \* poll_until: seconds waited so far
    timeout_seconds,  \* poll_until: its argument
    interval_seconds, \* poll_until: its argument
    check_calls,      \* poll_until: number of calls of check_fn made
    returned,         \* poll_until: what it returned, if it has
    check_fn,         \* poll_until: its argument ("none" when it was never called)
    observed,         \* poll_until: what the last call of check_fn read from the workspace
    clusters,         \* workspace: set of [cluster_id, cluster_name, state, assigned_user]
    cluster_seq,      \* workspace: number of clusters created so far
    emails            \* add-users, remove-users: what parse_csv returned

\* locals of the batched delete loops
clearVars == <<labels_to_clear, deleted_total, count, batch_limit>>

\* arguments and locals of poll_until
pollVars ==
    <<elapsed, timeout_seconds, interval_seconds, check_calls, returned, check_fn,
      observed>>

\* clusters of the Databricks workspace
clusterVars == <<clusters, cluster_seq, emails>>

adminVars == <<clearVars, pollVars, clusterVars>>

\* locals of process_document and generate_and_store_embeddings
embedVars == <<doc_pos, split_chunks, chunk_data, ids, embeddings>>

\* locals of run_extraction
runVars == <<chunks, all_extractions, deduplicated, responses>>

vars ==
    <<nodes, edges, nextId, pc, chunks, all_extractions, deduplicated, exc,
      responses, runs, calls, embedVars, context, provider, adminVars>>

\* Bounds of the model
MaxWindows == 2    \* text windows per document
MaxChunks == 2     \* chunks one run_extraction call fetches
MaxRuns == 2       \* commands (run_extraction, embed pass, clear) in one behaviour
MaxCalls == 3      \* provider calls (LLM, embedding) in one behaviour
MaxTexts == 3      \* windows split_text returns for one document
MaxEmbedCalls == 6  \* embedding calls in one behaviour of the embed command
MaxBatch == 3      \* batch sizes compared

\* description[:60] in _make_task_id
SlugLen == 60

---------------------------------------------------------------------------
(* Python values *)

Absent == [k |-> "absent", v |-> <<>>]
None == [k |-> "null", v |-> <<>>]
S(chars) == [k |-> "str", v |-> chars]
N(n) == [k |-> "num", v |-> n]
L(items) == [k |-> "list", v |-> items]
O(fields) == [k |-> "obj", v |-> fields]
Exc(name) == [k |-> "exc", v |-> name]
IsExc(x) == x.k = "exc"

\* keys of a dict value
ObjKeys(o) == {f \in DOMAIN o.v : o.v[f].k # "absent"}

\* dict.get(key, default)
Get(o, key, default) ==
    IF key \in ObjKeys(o) THEN o.v[key] ELSE default

\* bool(x)
Truthy(x) ==
    CASE x.k = "absent" -> FALSE
      [] x.k = "null" -> FALSE
      [] x.k = "str" -> x.v # <<>>
      [] x.k = "num" -> x.v # 0
      [] x.k = "list" -> x.v # <<>>
      [] x.k = "obj" -> ObjKeys(x) # {}

\* x or default
Or(x, default) == IF Truthy(x) THEN x ELSE default

\* len(x): defined for str, list and dict, TypeError otherwise
HasLen(x) == x.k \in {"str", "list", "obj"}
PyLen(x) == IF x.k = "obj" THEN Cardinality(ObjKeys(x)) ELSE Len(x.v)

---------------------------------------------------------------------------
(* str methods, on sequences of characters *)

UpperChars == <<"A","B","C","D","E","F","G","H","I","J","K","L","M",
                "N","O","P","Q","R","S","T","U","V","W","X","Y","Z">>
LowerChars == <<"a","b","c","d","e","f","g","h","i","j","k","l","m",
                "n","o","p","q","r","s","t","u","v","w","x","y","z">>
DigitChars == <<"0","1","2","3","4","5","6","7","8","9">>

IsSpace(c) == c \in {" ", "\t", "\n"}

LowerChar(c) ==
    IF \E i \in DOMAIN UpperChars : UpperChars[i] = c
    THEN LowerChars[CHOOSE i \in DOMAIN UpperChars : UpperChars[i] = c]
    ELSE c

\* s.lower()
Lower(s) == [i \in 1..Len(s) |-> LowerChar(s[i])]

\* s.replace(" ", "_")
ReplaceSpace(s) == [i \in 1..Len(s) |-> IF s[i] = " " THEN "_" ELSE s[i]]

RECURSIVE LStrip(_)
LStrip(s) == IF s # <<>> /\ IsSpace(Head(s)) THEN LStrip(Tail(s)) ELSE s

RECURSIVE RStrip(_)
RStrip(s) ==
    IF s # <<>> /\ IsSpace(s[Len(s)]) THEN RStrip(SubSeq(s, 1, Len(s) - 1)) ELSE s

\* s.strip()
Strip(s) == RStrip(LStrip(s))

\* s[:n]
Prefix(s, n) == SubSeq(s, 1, IF Len(s) < n THEN Len(s) ELSE n)

\* sep.join(parts)
RECURSIVE Join(_, _)
Join(parts, sep) ==
    IF parts = <<>> THEN <<>>
    ELSE IF Len(parts) = 1 THEN parts[1]
    ELSE parts[1] \o sep \o Join(Tail(parts), sep)

\* needle in haystack, for str
IsSubstring(needle, hay) ==
    \E i \in 0..(Len(hay) - Len(needle)) :
        SubSeq(hay, i + 1, i + Len(needle)) = needle

RECURSIVE Digits(_)
Digits(n) ==
    IF n < 10 THEN <<DigitChars[n + 1]>>
    ELSE Digits(n \div 10) \o <<DigitChars[(n % 10) + 1]>>

\* str(x)
PyStr(x) ==
    CASE x.k = "str" -> x.v
      [] x.k = "null" -> <<"N","o","n","e">>
      [] x.k = "num" -> IF x.v < 0 THEN <<"-">> \o Digits(-x.v) ELSE Digits(x.v)
      [] x.k = "list" -> IF x.v = <<>> THEN <<"[","]">> ELSE <<"[",".","]">>
      [] x.k = "obj" -> IF ObjKeys(x) = {} THEN <<"{","}">> ELSE <<"{",".","}">>

---------------------------------------------------------------------------
(* Deduplication helpers *)

Ok(x) == [k |-> "ok", v |-> x]

\* for x in v: the items a for loop visits, TypeError when v is not iterable
Iterate(x) ==
    CASE x.k = "list" -> Ok(x.v)
      [] x.k = "str" -> Ok([i \in 1..Len(x.v) |-> S(<<x.v[i]>>)])
      [] x.k = "obj" -> Ok([i \in 1..Cardinality(ObjKeys(x)) |-> S(<<"key">>)])
      [] OTHER -> Exc("TypeError")

HasKey(recs, field, key) == \E i \in 1..Len(recs) : recs[i][field] = key
IndexOfKey(recs, field, key) == CHOOSE i \in 1..Len(recs) : recs[i][field] = key

\* dict[key] = merged, where merging may have raised
StoreMerged(recs, i, merged) ==
    IF IsExc(merged) THEN merged ELSE Ok([recs EXCEPT ![i] = merged.v])

\* p.strip().replace(" ", "_").lower()
Slug(p) == Lower(ReplaceSpace(Strip(p)))

SlugParts(kept) == [i \in 1..Len(kept) |-> Slug(kept[i].v)]

\* faulty variant: the aircraft type is left out of the key
MakeLimitIdUnscoped(parameter, regime, aircraft_type) ==
    IF parameter.k # "str" \/ regime.k # "str" \/ aircraft_type.k # "str"
    THEN Exc("AttributeError")
    ELSE S(Join(SlugParts(SelectSeq(<<parameter, regime>>,
                                    LAMBDA p : Strip(p.v) # <<>>)),
                <<"_">>))

_make_limit_id(parameter, regime, aircraft_type) ==
    IF parameter.k # "str" \/ regime.k # "str" \/ aircraft_type.k # "str"
    THEN Exc("AttributeError")
    ELSE S(Join(SlugParts(SelectSeq(<<parameter, regime, aircraft_type>>,
                                    LAMBDA p : Strip(p.v) # <<>>)),
                <<"_">>))

\* faulty variant: the description is not cut to its first SlugLen characters
MakeTaskIdUncut(task_id, description) ==
    IF Truthy(task_id)
    THEN IF task_id.k # "str" THEN Exc("AttributeError") ELSE S(Strip(task_id.v))
    ELSE S(Slug(description))

_make_task_id(task_id, description) ==
    IF Truthy(task_id)
    THEN IF task_id.k # "str" THEN Exc("AttributeError") ELSE S(Strip(task_id.v))
    ELSE S(Slug(Prefix(description, SlugLen)))

(* --- Fault codes: extractor.py 259-275 --- *)

NewFaultCode(code, fc, source) ==
    [code |-> S(code),
     description |-> Get(fc, "description", S(<<>>)),
     severity_levels |-> Get(fc, "severity_levels", L(<<>>)),
     ata_chapter |-> S(PyStr(Get(fc, "ata_chapter", S(<<>>)))),
     immediate_action |-> Get(fc, "immediate_action", S(<<>>)),
     sources |-> <<source>>]

\* keep the longer of the two texts; len() of a non-sized value is a TypeError
KeepLonger(old, field, new, source) ==
    IF ~HasLen(new) \/ ~HasLen(old[field]) THEN Exc("TypeError")
    ELSE Ok([old EXCEPT !.sources = Append(@, source),
                        ![field] = IF PyLen(new) > PyLen(@) THEN new ELSE @])

\* faulty variant: the severity list of the new observation replaces the old
MergeFaultCodeLastSeverity(old, fc, source) ==
    KeepLonger([old EXCEPT !.severity_levels = Get(fc, "severity_levels", @)],
               "description", Get(fc, "description", S(<<>>)), source)

MergeFaultCode(old, fc, source) ==
    KeepLonger(old, "description", Get(fc, "description", S(<<>>)), source)

FaultCodeByKey(recs, fc, source, code) ==
    IF code = <<>> THEN Ok(recs)
    ELSE IF ~HasKey(recs, "code", S(code))
    THEN Ok(Append(recs, NewFaultCode(code, fc, source)))
    ELSE StoreMerged(recs, IndexOfKey(recs, "code", S(code)),
                     MergeFaultCode(recs[IndexOfKey(recs, "code", S(code))], fc, source))

\* (x or "").strip(), AttributeError when x is truthy and not a str
StripOrRaise(raw) == IF raw.k # "str" THEN Exc("AttributeError") ELSE Ok(Strip(raw.v))

FaultCodeByRaw(recs, fc, source, code) ==
    IF IsExc(code) THEN code ELSE FaultCodeByKey(recs, fc, source, code.v)

CollectFaultCode(recs, fc, source) ==
    IF fc.k # "obj" THEN Exc("AttributeError")
    ELSE FaultCodeByRaw(recs, fc, source,
                        StripOrRaise(Or(Get(fc, "code", None), S(<<>>))))

(* --- Part numbers: extractor.py 278-290 --- *)

NewPartNumber(number, pn, source) ==
    [number |-> S(number),
     component_name |-> Get(pn, "component_name", S(<<>>)),
     ata_reference |-> Get(pn, "ata_reference", S(<<>>)),
     sources |-> <<source>>]

MergePartNumber(old, pn, source) ==
    Ok([old EXCEPT !.sources = Append(@, source)])

PartNumberByKey(recs, pn, source, number) ==
    IF number = <<>> THEN Ok(recs)
    ELSE IF ~HasKey(recs, "number", S(number))
    THEN Ok(Append(recs, NewPartNumber(number, pn, source)))
    ELSE StoreMerged(recs, IndexOfKey(recs, "number", S(number)),
                     MergePartNumber(recs[IndexOfKey(recs, "number", S(number))],
                                     pn, source))

PartNumberByRaw(recs, pn, source, number) ==
    IF IsExc(number) THEN number ELSE PartNumberByKey(recs, pn, source, number.v)

CollectPartNumber(recs, pn, source) ==
    IF pn.k # "obj" THEN Exc("AttributeError")
    ELSE PartNumberByRaw(recs, pn, source,
                         StripOrRaise(Or(Get(pn, "number", None), S(<<>>))))

(* --- Operating limits: extractor.py 293-316 --- *)

NewOperatingLimit(key, param, regime, ol, aircraft_type, source) ==
    [limitId |-> key,
     parameter |-> S(param),
     unit |-> Get(ol, "unit", S(<<>>)),
     regime |-> S(regime),
     min_value |-> Get(ol, "min_value", None),
     max_value |-> Get(ol, "max_value", None),
     aircraftType |-> aircraft_type,
     sources |-> <<source>>]

\* faulty variant: a new value overwrites only when it is truthy
MergeOperatingLimitTruthy(old, ol, source) ==
    Ok([old EXCEPT !.sources = Append(@, source),
                   !.min_value = IF Truthy(Get(ol, "min_value", None))
                                 THEN ol.v["min_value"] ELSE @,
                   !.max_value = IF Truthy(Get(ol, "max_value", None))
                                 THEN ol.v["max_value"] ELSE @])

\* Keep non-null values from later chunks
MergeOperatingLimit(old, ol, source) ==
    Ok([old EXCEPT !.sources = Append(@, source),
                   !.min_value = IF Get(ol, "min_value", None) # None
                                 THEN ol.v["min_value"] ELSE @,
                   !.max_value = IF Get(ol, "max_value", None) # None
                                 THEN ol.v["max_value"] ELSE @])

OperatingLimitByKey(recs, ol, aircraft_type, source, param, regime, key) ==
    IF IsExc(key) THEN key
    ELSE IF ~HasKey(recs, "limitId", key)
    THEN Ok(Append(recs, NewOperatingLimit(key, param, regime, ol, aircraft_type, source)))
    ELSE StoreMerged(recs, IndexOfKey(recs, "limitId", key),
                     MergeOperatingLimit(recs[IndexOfKey(recs, "limitId", key)],
                                         ol, source))

OperatingLimitByRaw(recs, ol, aircraft_type, source, param, regime) ==
    IF IsExc(param) THEN param
    ELSE IF IsExc(regime) THEN regime
    ELSE IF param.v = <<>> \/ regime.v = <<>> THEN Ok(recs)
    ELSE OperatingLimitByKey(recs, ol, aircraft_type, source, param.v, regime.v,
                             _make_limit_id(S(param.v), S(regime.v), aircraft_type))

CollectOperatingLimit(recs, ol, aircraft_type, source) ==
    IF ol.k # "obj" THEN Exc("AttributeError")
    ELSE OperatingLimitByRaw(recs, ol, aircraft_type, source,
                             StripOrRaise(Or(Get(ol, "parameter", None), S(<<>>))),
                             StripOrRaise(Or(Get(ol, "regime", None), S(<<>>))))

(* --- Maintenance tasks: extractor.py 319-336 --- *)

NewMaintenanceTask(tid, desc, mt, source) ==
    [taskId |-> tid,
     description |-> S(desc),
     interval |-> Get(mt, "interval", None),
     intervalUnit |-> Get(mt, "interval_unit", S(<<>>)),
     durationHours |-> Get(mt, "duration_hours", None),
     personnelCount |-> Get(mt, "personnel_count", None),
     personnelType |-> Get(mt, "personnel_type", S(<<>>)),
     sources |-> <<source>>]

MergeMaintenanceTask(old, mt, source) ==
    Ok([old EXCEPT !.sources = Append(@, source)])

MaintenanceTaskByKey(recs, mt, source, desc, tid) ==
    IF IsExc(tid) THEN tid
    ELSE IF ~HasKey(recs, "taskId", tid)
    THEN Ok(Append(recs, NewMaintenanceTask(tid, desc, mt, source)))
    ELSE StoreMerged(recs, IndexOfKey(recs, "taskId", tid),
                     MergeMaintenanceTask(recs[IndexOfKey(recs, "taskId", tid)],
                                          mt, source))

MaintenanceTaskByRaw(recs, mt, source, desc) ==
    IF IsExc(desc) THEN desc
    ELSE IF desc.v = <<>> THEN Ok(recs)
    ELSE MaintenanceTaskByKey(recs, mt, source, desc.v,
                              _make_task_id(Get(mt, "task_id", None), desc.v))

CollectMaintenanceTask(recs, mt, source) ==
    IF mt.k # "obj" THEN Exc("AttributeError")
    ELSE MaintenanceTaskByRaw(recs, mt, source,
                              StripOrRaise(Or(Get(mt, "description", None), S(<<>>))))

(* --- ATA chapters: extractor.py 339-353 --- *)

NewATAChapter(chapter, ata, source) ==
    [chapter |-> S(chapter),
     title |-> Get(ata, "title", S(<<>>)),
     sources |-> <<source>>]

\* Keep longer title
MergeATAChapter(old, ata, source) ==
    KeepLonger(old, "title", Get(ata, "title", S(<<>>)), source)

ATAChapterByKey(recs, ata, source, chapter) ==
    IF chapter = <<>> THEN Ok(recs)
    ELSE IF ~HasKey(recs, "chapter", S(chapter))
    THEN Ok(Append(recs, NewATAChapter(chapter, ata, source)))
    ELSE StoreMerged(recs, IndexOfKey(recs, "chapter", S(chapter)),
                     MergeATAChapter(recs[IndexOfKey(recs, "chapter", S(chapter))],
                                     ata, source))

CollectATAChapter(recs, ata, source) ==
    IF ata.k # "obj" THEN Exc("AttributeError")
    ELSE ATAChapterByKey(recs, ata, source,
                         Strip(PyStr(Get(ata, "chapter", S(<<>>)))))

---------------------------------------------------------------------------
(* _collect_and_deduplicate: extractor.py 241-361 *)

EntityKeys ==
    <<"fault_codes", "part_numbers", "operating_limits", "maintenance_tasks",
      "ata_chapters">>

EmptyDicts ==
    [fault_codes |-> <<>>, part_numbers |-> <<>>, operating_limits |-> <<>>,
     maintenance_tasks |-> <<>>, ata_chapters |-> <<>>]

\* one iteration of the inner for loop of entity type etype
CollectOne(etype, recs, item, aircraft_type, source) ==
    CASE etype = "fault_codes" -> CollectFaultCode(recs, item, source)
      [] etype = "part_numbers" -> CollectPartNumber(recs, item, source)
      [] etype = "operating_limits" ->
             CollectOperatingLimit(recs, item, aircraft_type, source)
      [] etype = "maintenance_tasks" -> CollectMaintenanceTask(recs, item, source)
      [] etype = "ata_chapters" -> CollectATAChapter(recs, item, source)

\* recs is Ok(list of records) or the exception raised so far
RECURSIVE CollectItems(_, _, _, _, _)
CollectItems(etype, recs, items, aircraft_type, source) ==
    IF IsExc(recs) \/ items = <<>> THEN recs
    ELSE CollectItems(etype,
                      CollectOne(etype, recs.v, Head(items), aircraft_type, source),
                      Tail(items), aircraft_type, source)

SourceOf(extraction) ==
    [documentId |-> extraction.documentId, chunkIndex |-> extraction.chunkIndex]

PutType(dicts, etype, recs) ==
    IF IsExc(recs) THEN recs ELSE Ok([dicts EXCEPT ![etype] = recs.v])

\* for x in entities.get(etype, []): ...
CollectType(etype, dicts, extraction, items) ==
    IF IsExc(items) THEN items
    ELSE PutType(dicts, etype,
                 CollectItems(etype, Ok(dicts[etype]), items.v,
                              extraction.aircraftType, SourceOf(extraction)))

\* the body of "for extraction in all_extractions", entity types from the i-th on
RECURSIVE CollectExtraction(_, _, _)
CollectExtraction(acc, extraction, i) ==
    IF IsExc(acc) \/ i > Len(EntityKeys) THEN acc
    ELSE IF extraction.entities.k # "obj" THEN Exc("AttributeError")
    ELSE CollectExtraction(
             CollectType(EntityKeys[i], acc.v, extraction,
                         Iterate(Get(extraction.entities, EntityKeys[i], L(<<>>)))),
             extraction, i + 1)

RECURSIVE CollectAll(_, _)
CollectAll(acc, extractions) ==
    IF extractions = <<>> \/ IsExc(acc) THEN acc
    ELSE CollectAll(CollectExtraction(acc, Head(extractions), 1), Tail(extractions))

\* Ok(the five lists of canonical records) or the exception raised
_collect_and_deduplicate(extractions) == CollectAll(Ok(EmptyDicts), extractions)

---------------------------------------------------------------------------
(* extract_entities_from_chunk: extractor.py 189-222 *)

KeyChars(key) ==
    CASE key = "fault_codes" -> <<"f","a","u","l","t","_","c","o","d","e","s">>
      [] key = "part_numbers" -> <<"p","a","r","t","_","n","u","m","b","e","r","s">>
      [] key = "operating_limits" ->
             <<"o","p","e","r","a","t","i","n","g","_","l","i","m","i","t","s">>
      [] key = "maintenance_tasks" ->
             <<"m","a","i","n","t","e","n","a","n","c","e","_","t","a","s","k","s">>
      [] key = "ata_chapters" -> <<"a","t","a","_","c","h","a","p","t","e","r","s">>

EMPTY_RESULT == O([key \in {EntityKeys[i] : i \in 1..Len(EntityKeys)} |-> L(<<>>)])

\* An LLM outcome is [k |-> "raise"] (the call raised) or [k |-> "content",
\* v |-> x] where x is what json.loads / json_repair make of the returned text:
\* a value, or Exc("JSONDecodeError") when the text cannot be decoded.
_parse_json_response(content) == content.v

\* key in result
Contains(result, key) ==
    CASE result.k = "obj" -> Ok(key \in ObjKeys(result))
      [] result.k = "list" ->
             Ok(\E i \in 1..Len(result.v) : result.v[i] = S(KeyChars(key)))
      [] result.k = "str" -> Ok(IsSubstring(KeyChars(key), result.v))
      [] OTHER -> Exc("TypeError")

\* for key in EMPTY_RESULT: if key not in result: result[key] = []
FillMissingKeys(result) ==
    IF result.k = "obj"
    THEN O([key \in DOMAIN result.v |->
              IF key \in ObjKeys(result) THEN result.v[key] ELSE L(<<>>)])
    ELSE IF IsExc(Contains(result, EntityKeys[1])) THEN Exc("TypeError")
    ELSE IF \A i \in 1..Len(EntityKeys) : Contains(result, EntityKeys[i]).v
         THEN result
         ELSE Exc("TypeError")

\* except Exception: return dict(EMPTY_RESULT)
OrEmpty(result) == IF IsExc(result) THEN EMPTY_RESULT ELSE result

\* faulty variant: no except clause, the exception is the result
ExtractWithoutCatch(response) ==
    IF response.k = "raise" THEN Exc("RuntimeError")
    ELSE FillMissingKeys(_parse_json_response(response))

extract_entities_from_chunk(response) ==
    IF response.k = "raise" THEN EMPTY_RESULT
    ELSE IF IsExc(_parse_json_response(response)) THEN EMPTY_RESULT
    ELSE OrEmpty(FillMissingKeys(_parse_json_response(response)))

---------------------------------------------------------------------------
(* The graph store: nodes [id, label, props], edges [id, type, src, dst].   *)
(* A store value is [nodes, edges, nextId].                                 *)

MatchNodes(st, label, keyProps) ==
    {n \in st.nodes : n.label = label
                      /\ \A f \in DOMAIN keyProps : n.props[f] = keyProps[f]}

\* faulty variant: CREATE instead of MERGE
CreateNode(st, label, keyProps, setProps) ==
    [st EXCEPT !.nodes = @ \cup {[id |-> st.nextId, label |-> label,
                                   props |-> setProps @@ keyProps]},
               !.nextId = @ + 1]

\* MERGE (n:label {keyProps}) SET n.f = setProps[f], ...
MergeNode(st, label, keyProps, setProps) ==
    IF MatchNodes(st, label, keyProps) = {}
    THEN [st EXCEPT !.nodes = @ \cup {[id |-> st.nextId, label |-> label,
                                       props |-> setProps @@ keyProps]},
                    !.nextId = @ + 1]
    ELSE [st EXCEPT !.nodes = {IF n \in MatchNodes(st, label, keyProps)
                               THEN [n EXCEPT !.props = setProps @@ n.props]
                               ELSE n : n \in st.nodes}]

\* faulty variant: CREATE instead of MERGE
CreateEdge(st, type, src, dst) ==
    [st EXCEPT !.edges = @ \cup {[id |-> st.nextId, type |-> type,
                                   src |-> src, dst |-> dst]},
               !.nextId = @ + 1]

\* MERGE (src)-[:type]->(dst)
MergeEdge(st, type, src, dst) ==
    IF \E e \in st.edges : e.type = type /\ e.src = src /\ e.dst = dst
    THEN st
    ELSE [st EXCEPT !.edges = @ \cup {[id |-> st.nextId, type |-> type,
                                       src |-> src, dst |-> dst]},
                    !.nextId = @ + 1]

\* MERGE of one edge per (src, dst) pair of a set of pairs, in id order
RECURSIVE MergeEdges(_, _, _)
MergeEdges(st, type, pairs) ==
    IF pairs = {} THEN st
    ELSE LET p == CHOOSE q \in pairs :
                    \A r \in pairs : q[1] < r[1] \/ (q[1] = r[1] /\ q[2] <= r[2])
         IN MergeEdges(MergeEdge(st, type, p[1], p[2]), type, pairs \ {p})

\* what a call against the store leaves: the store, and the exception raised
Linked(st, e) == [st |-> st, exc |-> e]

---------------------------------------------------------------------------
(* Document registry and chunk materialisation: embedder.py 27-170 *)

DOCUMENTS ==
    <<[document_id |-> "AMM-A320-2024-001",
       aircraft_type |-> S(<<"A","3","2","0","-","2","0","0">>),
       title |-> "A320-200 Maintenance and Troubleshooting Manual"],
      [document_id |-> "AMM-A321neo-2024-001",
       aircraft_type |-> S(<<"A","3","2","1","n","e","o">>),
       title |-> "A321neo Maintenance and Troubleshooting Manual"],
      [document_id |-> "AMM-B737-2024-001",
       aircraft_type |-> S(<<"B","7","3","7","-","8","0","0">>),
       title |-> "B737-800 Maintenance and Troubleshooting Manual"]>>

\* position of a documentId in ORDER BY c.documentId (the registry is sorted)
DocOrder(document_id) ==
    IF \E i \in 1..Len(DOCUMENTS) : DOCUMENTS[i].document_id = document_id
    THEN CHOOSE i \in 1..Len(DOCUMENTS) : DOCUMENTS[i].document_id = document_id
    ELSE 0

create_document(st, meta) ==
    MergeNode(st, "Document", [documentId |-> meta.document_id],
              [type |-> "maintenance_manual",
               aircraftType |-> meta.aircraft_type,
               title |-> meta.title])

\* MATCH (d:Document ..) MERGE (c:Chunk ..) SET c.text MERGE (c)-[:FROM_DOCUMENT]->(d)
CreateChunkRow(st, doc_id, index, text) ==
    LET docs == MatchNodes(st, "Document", [documentId |-> doc_id]) IN
    IF docs = {} THEN st
    ELSE LET st1 == MergeNode(st, "Chunk", [documentId |-> doc_id, index |-> index],
                              [text |-> text])
             cs == MatchNodes(st1, "Chunk", [documentId |-> doc_id, index |-> index])
         IN MergeEdges(st1, "FROM_DOCUMENT",
                       {<<c.id, d.id>> : c \in cs, d \in docs})

\* batch_records: one record per window, in index order
BatchRecords(doc_id, texts) ==
    [i \in 1..Len(texts) |-> [doc_id |-> doc_id, index |-> i - 1, text |-> texts[i]]]

\* faulty variant: records[i : i + size - 1]
SliceShort(records, i, size) ==
    SubSeq(records, i + 1,
           IF i + size - 1 < Len(records) THEN i + size - 1 ELSE Len(records))

\* records[i : i + size]
Slice(records, i, size) ==
    SubSeq(records, i + 1, IF i + size < Len(records) THEN i + size ELSE Len(records))

\* one statement: UNWIND $batch AS row MATCH (d) MERGE (c) SET c.text MERGE (c)-[]->(d)
RECURSIVE CreateChunkRows(_, _)
CreateChunkRows(st, batch) ==
    IF batch = <<>> THEN st
    ELSE CreateChunkRows(CreateChunkRow(st, Head(batch).doc_id, Head(batch).index,
                                        Head(batch).text),
                         Tail(batch))

\* for i in range(0, total, BATCH_SIZE): one statement per batch
RECURSIVE ChunkBatches(_, _, _, _)
ChunkBatches(st, records, i, size) ==
    IF i >= Len(records) THEN st
    ELSE ChunkBatches(CreateChunkRows(st, Slice(records, i, size)),
                      records, i + size, size)

\* faulty variant: a record from the last index back to the first is added
ChainRecordsWrapping(doc_id, total) ==
    [i \in 1..total |->
        [doc_id |-> doc_id, idx |-> i - 1, next_idx |-> IF i = total THEN 0 ELSE i]]

\* chain_records: one record per pair of adjacent indexes
ChainRecords(doc_id, total) ==
    [i \in 1..(total - 1) |-> [doc_id |-> doc_id, idx |-> i - 1, next_idx |-> i]]

\* MATCH (c1:Chunk ..idx) MATCH (c2:Chunk ..next_idx) MERGE (c1)-[:NEXT_CHUNK]->(c2)
CreateChainRow(st, row) ==
    MergeEdges(st, "NEXT_CHUNK",
               {<<a.id, b.id>> :
                   a \in MatchNodes(st, "Chunk",
                                    [documentId |-> row.doc_id, index |-> row.idx]),
                   b \in MatchNodes(st, "Chunk",
                                    [documentId |-> row.doc_id, index |-> row.next_idx])})

\* one statement: UNWIND $batch AS row ...
RECURSIVE CreateChain(_, _)
CreateChain(st, batch) ==
    IF batch = <<>> THEN st
    ELSE CreateChain(CreateChainRow(st, Head(batch)), Tail(batch))

\* for i in range(0, len(chain_records), BATCH_SIZE)
RECURSIVE ChainBatches(_, _, _, _)
ChainBatches(st, records, i, size) ==
    IF i >= Len(records) THEN st
    ELSE ChainBatches(CreateChain(st, Slice(records, i, size)),
                      records, i + size, size)

\* the writes of create_chunks_and_relationships for a batch size
CreateChunksInBatches(st, meta, texts, size) ==
    ChainBatches(ChunkBatches(st, BatchRecords(meta.document_id, texts), 0, size),
                 ChainRecords(meta.document_id, Len(texts)), 0, size)

BATCH_SIZE == 100

create_chunks_and_relationships(st, meta, texts) ==
    CreateChunksInBatches(st, meta, texts, BATCH_SIZE)

\* MATCH (c:Chunk {documentId}) RETURN elementId(c), c.text ORDER BY c.index
RECURSIVE ChunkData(_)
ChunkData(cs) ==
    IF cs = {} THEN <<>>
    ELSE <<[eid |-> (CHOOSE c \in cs : \A d \in cs :
                        c.props.index < d.props.index
                        \/ (c.props.index = d.props.index /\ c.id <= d.id)).id,
            text |-> (CHOOSE c \in cs : \A d \in cs :
                        c.props.index < d.props.index
                        \/ (c.props.index = d.props.index /\ c.id <= d.id)).props.text]>>
         \o ChunkData(cs \ {CHOOSE c \in cs : \A d \in cs :
                               c.props.index < d.props.index
                               \/ (c.props.index = d.props.index /\ c.id <= d.id)})

\* embedder.embed_query(text): the vector the provider returns for a text
Vector(text) == <<"vector", text>>

\* upsert_vectors: SET the embedding property of the node of each id
upsert_vectors(st, node_ids, vectors) ==
    [st EXCEPT !.nodes =
        {IF \E i \in 1..Len(node_ids) : node_ids[i] = n.id
         THEN [n EXCEPT !.props =
                  [embedding |-> vectors[CHOOSE i \in 1..Len(node_ids) :
                                            /\ node_ids[i] = n.id
                                            /\ \A j \in (i + 1)..Len(node_ids) :
                                                  node_ids[j] # n.id]]
                  @@ @]
         ELSE n : n \in st.nodes}]

\* generate_and_store_embeddings when no embedding call raises
StoreEmbeddings(st, data) ==
    upsert_vectors(st, [i \in 1..Len(data) |-> data[i].eid],
                   [i \in 1..Len(data) |-> Vector(data[i].text)])

\* the text windows of a document: window i of document d is the pair <<d, i>>
Windows(meta, n) == [i \in 1..n |-> <<meta.document_id, i - 1>>]

RowsOf(st, doc_id) ==
    ChunkData({c \in st.nodes : c.label = "Chunk" /\ c.props.documentId = doc_id})

\* process_document: create_document, create_chunks_and_relationships,
\* generate_and_store_embeddings
StoreChunkEmbeddings(st, meta) == StoreEmbeddings(st, RowsOf(st, meta.document_id))

MaterialiseDocument(st, meta, n) ==
    StoreChunkEmbeddings(
        create_chunks_and_relationships(create_document(st, meta), meta, Windows(meta, n)),
        meta)

---------------------------------------------------------------------------
(* The pre-existing operational graph (loader.py), a small instance *)

OperationalNodes ==
    {[id |-> 1, label |-> "Aircraft", props |-> [aircraft_id |-> "AC1", model |-> S(<<"A","3","2","0","-","2","0","0">>)]],
     [id |-> 2, label |-> "Aircraft", props |-> [aircraft_id |-> "AC2", model |-> S(<<"B","7","3","7","-","8","0","0">>)]],
     [id |-> 3, label |-> "System", props |-> [system_id |-> "SYS1"]],
     [id |-> 4, label |-> "System", props |-> [system_id |-> "SYS2"]],
     [id |-> 5, label |-> "Sensor", props |-> [sensor_id |-> "SN1", type |-> S(<<"E","G","T">>)]],
     [id |-> 6, label |-> "Sensor", props |-> [sensor_id |-> "SN2", type |-> S(<<"E","G","T">>)]],
     [id |-> 7, label |-> "Component", props |-> [component_id |-> "CMP1", name |-> S(<<"F","a","n">>)]],
     [id |-> 8, label |-> "MaintenanceEvent",
      props |-> [event_id |-> "ME1", fault |-> S(<<"O","v","e","r","h","e","a","t">>)]]}

OperationalEdges ==
    {[id |-> 9, type |-> "HAS_SYSTEM", src |-> 1, dst |-> 3],
     [id |-> 10, type |-> "HAS_SYSTEM", src |-> 2, dst |-> 4],
     [id |-> 11, type |-> "HAS_SENSOR", src |-> 3, dst |-> 5],
     [id |-> 12, type |-> "HAS_SENSOR", src |-> 4, dst |-> 6],
     [id |-> 13, type |-> "HAS_COMPONENT", src |-> 3, dst |-> 7],
     [id |-> 14, type |-> "HAS_EVENT", src |-> 7, dst |-> 8]}

OperationalGraph ==
    [nodes |-> OperationalNodes, edges |-> OperationalEdges, nextId |-> 15]

\* the store after process_document has run for every registry document,
\* each split into n windows
RECURSIVE MaterialiseAll(_, _, _)
MaterialiseAll(st, metas, n) ==
    IF metas = <<>> THEN st
    ELSE MaterialiseAll(MaterialiseDocument(st, Head(metas), n), Tail(metas), n)

---------------------------------------------------------------------------
(* Graph writes, one operator per entity type: extractor.py 369-541 *)

\* UNWIND $batch AS row MERGE (n:label {key}) SET n.f = row.f, ...
RECURSIVE MergeRows(_, _, _)
MergeRows(st, label, batch) ==
    IF batch = <<>> THEN st
    ELSE MergeRows(MergeNode(st, label, Head(batch).key, Head(batch).set),
                   label, Tail(batch))

\* faulty variant: only the first source of each entity gets a link
RECURSIVE SourceLinksFirstOnly(_, _)
SourceLinksFirstOnly(entities, key_field) ==
    IF entities = <<>> THEN <<>>
    ELSE [i \in 1..(IF Head(entities).sources = <<>> THEN 0 ELSE 1) |->
            [key |-> Head(entities)[key_field],
             documentId |-> Head(entities).sources[i].documentId,
             chunkIndex |-> Head(entities).sources[i].chunkIndex]]
         \o SourceLinksFirstOnly(Tail(entities), key_field)

\* links.append({key, documentId, chunkIndex}) for every source of every entity
RECURSIVE SourceLinks(_, _)
SourceLinks(entities, key_field) ==
    IF entities = <<>> THEN <<>>
    ELSE [i \in 1..Len(Head(entities).sources) |->
            [key |-> Head(entities)[key_field],
             documentId |-> Head(entities).sources[i].documentId,
             chunkIndex |-> Head(entities).sources[i].chunkIndex]]
         \o SourceLinks(Tail(entities), key_field)

\* MATCH (entity:label {field: row.key}) MATCH (c:Chunk {documentId, index})
\* MERGE (entity)-[:DOCUMENTED_IN]->(c)
RECURSIVE MergeSourceLinks(_, _, _, _)
MergeSourceLinks(st, label, field, links) ==
    IF links = <<>> THEN st
    ELSE MergeSourceLinks(
             MergeEdges(st, "DOCUMENTED_IN",
                        {<<e.id, c.id>> :
                            e \in MatchNodes(st, label, field :> Head(links).key),
                            c \in MatchNodes(st, "Chunk",
                                             [documentId |-> Head(links).documentId,
                                              index |-> Head(links).chunkIndex])}),
             label, field, Tail(links))

_write_source_links(st, label, field, entities, key_field) ==
    MergeSourceLinks(st, label, field, SourceLinks(entities, key_field))

FaultCodeBatch(fault_codes) ==
    [i \in 1..Len(fault_codes) |->
       [key |-> [code |-> fault_codes[i].code],
        set |-> [description |-> fault_codes[i].description,
                 severityLevels |-> fault_codes[i].severity_levels,
                 ataChapter |-> fault_codes[i].ata_chapter,
                 immediateAction |-> fault_codes[i].immediate_action]]]

_write_fault_codes(st, fault_codes) ==
    IF fault_codes = <<>> THEN st
    ELSE _write_source_links(MergeRows(st, "FaultCode", FaultCodeBatch(fault_codes)),
                             "FaultCode", "code", fault_codes, "code")

PartNumberBatch(part_numbers) ==
    [i \in 1..Len(part_numbers) |->
       [key |-> [number |-> part_numbers[i].number],
        set |-> [componentName |-> part_numbers[i].component_name,
                 ataReference |-> part_numbers[i].ata_reference]]]

_write_part_numbers(st, part_numbers) ==
    IF part_numbers = <<>> THEN st
    ELSE _write_source_links(MergeRows(st, "PartNumber", PartNumberBatch(part_numbers)),
                             "PartNumber", "number", part_numbers, "number")

OperatingLimitBatch(limits) ==
    [i \in 1..Len(limits) |->
       [key |-> [limitId |-> limits[i].limitId],
        set |-> [parameter |-> limits[i].parameter,
                 unit |-> limits[i].unit,
                 regime |-> limits[i].regime,
                 minValue |-> limits[i].min_value,
                 maxValue |-> limits[i].max_value,
                 aircraftType |-> limits[i].aircraftType]]]

_write_operating_limits(st, limits) ==
    IF limits = <<>> THEN st
    ELSE _write_source_links(MergeRows(st, "OperatingLimit", OperatingLimitBatch(limits)),
                             "OperatingLimit", "limitId", limits, "limitId")

MaintenanceTaskBatch(tasks) ==
    [i \in 1..Len(tasks) |->
       [key |-> [taskId |-> tasks[i].taskId],
        set |-> [description |-> tasks[i].description,
                 interval |-> tasks[i].interval,
                 intervalUnit |-> tasks[i].intervalUnit,
                 durationHours |-> tasks[i].durationHours,
                 personnelCount |-> tasks[i].personnelCount,
                 personnelType |-> tasks[i].personnelType]]]

_write_maintenance_tasks(st, tasks) ==
    IF tasks = <<>> THEN st
    ELSE _write_source_links(MergeRows(st, "MaintenanceTask", MaintenanceTaskBatch(tasks)),
                             "MaintenanceTask", "taskId", tasks, "taskId")

ATAChapterBatch(chapters) ==
    [i \in 1..Len(chapters) |->
       [key |-> [chapter |-> chapters[i].chapter],
        set |-> [title |-> chapters[i].title]]]

_write_ata_chapters(st, chapters) ==
    IF chapters = <<>> THEN st
    ELSE _write_source_links(MergeRows(st, "ATAChapter", ATAChapterBatch(chapters)),
                             "ATAChapter", "chapter", chapters, "chapter")

---------------------------------------------------------------------------
(* The writers against a store whose statements may fail: execute_query     *)
(* raises, the statement is rolled back and the exception leaves the writer *)
(* and run_extraction (extractor.py 396-541, 670-689)                       *)

WriteOutcomes == {"ok", "upsert_raises", "links_raise"}

\* faulty variant: the provenance pass is issued although the upsert raised
TwoPassesLinksAnyway(st, label, field, batch, entities, outcome) ==
    IF entities = <<>> THEN Linked(st, "none")
    ELSE IF outcome = "upsert_raises"
    THEN Linked(_write_source_links(st, label, field, entities, field),
                "ServiceUnavailable")
    ELSE IF outcome = "links_raise"
    THEN Linked(MergeRows(st, label, batch), "ServiceUnavailable")
    ELSE Linked(_write_source_links(MergeRows(st, label, batch),
                                    label, field, entities, field), "none")

\* pass 1 is the upsert, pass 2 is _write_source_links; pass 2 is reached
\* only when the call of pass 1 has returned
TwoPasses(st, label, field, batch, entities, outcome) ==
    IF entities = <<>> THEN Linked(st, "none")
    ELSE IF outcome = "upsert_raises" THEN Linked(st, "ServiceUnavailable")
    ELSE IF outcome = "links_raise"
    THEN Linked(MergeRows(st, label, batch), "ServiceUnavailable")
    ELSE Linked(_write_source_links(MergeRows(st, label, batch),
                                    label, field, entities, field), "none")

WriterLabel ==
    [fault_codes |-> "FaultCode", part_numbers |-> "PartNumber",
     operating_limits |-> "OperatingLimit",
     maintenance_tasks |-> "MaintenanceTask", ata_chapters |-> "ATAChapter"]

WriterKey ==
    [fault_codes |-> "code", part_numbers |-> "number",
     operating_limits |-> "limitId", maintenance_tasks |-> "taskId",
     ata_chapters |-> "chapter"]

WriterBatch(etype, entities) ==
    CASE etype = "fault_codes" -> FaultCodeBatch(entities)
      [] etype = "part_numbers" -> PartNumberBatch(entities)
      [] etype = "operating_limits" -> OperatingLimitBatch(entities)
      [] etype = "maintenance_tasks" -> MaintenanceTaskBatch(entities)
      [] etype = "ata_chapters" -> ATAChapterBatch(entities)

\* the writer of one entity type, with the outcome of its statements
WriteWith(etype, st, entities, outcome) ==
    TwoPasses(st, WriterLabel[etype], WriterKey[etype],
              WriterBatch(etype, entities), entities, outcome)

---------------------------------------------------------------------------
(* _link_to_existing_graph: extractor.py 549-597 *)

Labelled(st, label) == {n \in st.nodes : n.label = label}

\* x IS NOT NULL AND x <> ''
Present(x) == x # None /\ x # S(<<>>)

\* faulty variant: CREATE of one edge for a matched pair, whether or not the
\* edge exists
LinkPairsCreate(st, type, pairs) ==
    IF pairs = {} THEN st
    ELSE CreateEdge(MergeEdges(st, type, {<<p[1].id, p[2].id>> : p \in pairs}),
                    type,
                    (CHOOSE p \in pairs : \A q \in pairs : p[1].id <= q[1].id)[1].id,
                    (CHOOSE p \in pairs : \A q \in pairs : p[1].id <= q[1].id)[2].id)

LinkPairs(st, type, pairs) ==
    MergeEdges(st, type, {<<p[1].id, p[2].id>> : p \in pairs})

\* split(s, '-')[0]
RECURSIVE SplitHead(_)
SplitHead(s) ==
    IF s = <<>> \/ Head(s) = "-" THEN <<>> ELSE <<Head(s)>> \o SplitHead(Tail(s))

\* FaultCode -[:CLASSIFIED_UNDER]-> ATAChapter
LinkFaultCodeChapter(st) ==
    LinkPairs(st, "CLASSIFIED_UNDER",
              {p \in Labelled(st, "FaultCode") \X Labelled(st, "ATAChapter") :
                  /\ Present(p[1].props.ataChapter)
                  /\ p[2].props.chapter = p[1].props.ataChapter})

\* MaintenanceEvent -[:CLASSIFIED_AS]-> FaultCode
LinkEventFaultCode(st) ==
    LinkPairs(st, "CLASSIFIED_AS",
              {p \in Labelled(st, "MaintenanceEvent") \X Labelled(st, "FaultCode") :
                  /\ Present(p[1].props.fault)
                  /\ p[2].props.code = p[1].props.fault})

\* split() of a value that is not a string is a type error of the query
PartNumberChapterRaises(st) ==
    \E pn \in Labelled(st, "PartNumber") :
        Present(pn.props.ataReference) /\ pn.props.ataReference.k # "str"

\* PartNumber -[:CLASSIFIED_UNDER]-> ATAChapter
LinkPartNumberChapter(st) ==
    LinkPairs(st, "CLASSIFIED_UNDER",
              {p \in Labelled(st, "PartNumber") \X Labelled(st, "ATAChapter") :
                  /\ Present(p[1].props.ataReference)
                  /\ p[2].props.chapter = S(SplitHead(p[1].props.ataReference.v))})

\* toLower() of a value that is not a string is a type error of the query
ComponentPartNumberRaises(st) ==
    /\ Labelled(st, "Component") # {}
    /\ \E pn \in Labelled(st, "PartNumber") :
         pn.props.componentName # None /\ pn.props.componentName.k # "str"

\* Component -[:IDENTIFIED_BY]-> PartNumber (name match)
LinkComponentPartNumber(st) ==
    LinkPairs(st, "IDENTIFIED_BY",
              {p \in Labelled(st, "Component") \X Labelled(st, "PartNumber") :
                  /\ p[2].props.componentName # None
                  /\ Lower(p[1].props.name.v) = Lower(p[2].props.componentName.v)})

HasEdge(st, type, src, dst) ==
    \E e \in st.edges : e.type = type /\ e.src = src.id /\ e.dst = dst.id

\* the sensors s of MATCH (a:Aircraft)-[:HAS_SYSTEM]->(sys)-[:HAS_SENSOR]->(s), with a
SensorPaths(st) ==
    {p \in Labelled(st, "Aircraft") \X Labelled(st, "Sensor") :
        \E sys \in Labelled(st, "System") :
            HasEdge(st, "HAS_SYSTEM", p[1], sys) /\ HasEdge(st, "HAS_SENSOR", sys, p[2])}

\* faulty variant: the aircraft model is not compared
LinkSensorLimitUnscoped(st) ==
    LinkPairs(st, "HAS_LIMIT",
              {<<q[1][2], q[2]>> : q \in
                  {r \in SensorPaths(st) \X Labelled(st, "OperatingLimit") :
                      r[2].props.parameter = r[1][2].props.type}})

\* Sensor -[:HAS_LIMIT]-> OperatingLimit, scoped by aircraft model
LinkSensorLimit(st) ==
    LinkPairs(st, "HAS_LIMIT",
              {<<q[1][2], q[2]>> : q \in
                  {r \in SensorPaths(st) \X Labelled(st, "OperatingLimit") :
                      /\ r[2].props.parameter = r[1][2].props.type
                      /\ r[2].props.aircraftType = r[1][1].props.model}})

LinkFromComponents(st) ==
    IF ComponentPartNumberRaises(st) THEN Linked(st, "CypherTypeError")
    ELSE Linked(LinkSensorLimit(LinkComponentPartNumber(st)), "none")

LinkFromPartNumbers(st) ==
    IF PartNumberChapterRaises(st) THEN Linked(st, "CypherTypeError")
    ELSE LinkFromComponents(LinkPartNumberChapter(st))

\* the five queries in order; a query that raises ends the function
_link_to_existing_graph(st) ==
    LinkFromPartNumbers(LinkEventFaultCode(LinkFaultCodeChapter(st)))

\* the five statements of _link_to_existing_graph against a store that may
\* fail: statement fail_at raises (LinkStatements + 1: none does)
LinkStatements == 5

LinkRule(st, j) ==
    CASE j = 1 -> LinkFaultCodeChapter(st)
      [] j = 2 -> LinkEventFaultCode(st)
      [] j = 3 -> LinkPartNumberChapter(st)
      [] j = 4 -> LinkComponentPartNumber(st)
      [] j = 5 -> LinkSensorLimit(st)

LinkRuleRaises(st, j) ==
    \/ j = 3 /\ PartNumberChapterRaises(st)
    \/ j = 4 /\ ComponentPartNumberRaises(st)

RECURSIVE LinkFrom(_, _, _)
LinkFrom(st, j, fail_at) ==
    IF j > LinkStatements THEN Linked(st, "none")
    ELSE IF j = fail_at THEN Linked(st, "ServiceUnavailable")
    ELSE IF LinkRuleRaises(st, j) THEN Linked(st, "CypherTypeError")
    ELSE LinkFrom(LinkRule(st, j), j + 1, fail_at)

---------------------------------------------------------------------------
(* Cleanup: embedder.py 77-92, extractor.py 605-618, pipeline.py 417-444 *)

\* faulty variant: the nodes go, the edges at them stay
DeleteKeepingEdges(st, gone) ==
    [st EXCEPT !.nodes = @ \ gone]

\* DETACH DELETE: the nodes go, and every edge at one of them
DetachDelete(st, gone) ==
    [st EXCEPT !.nodes = @ \ gone,
               !.edges = {e \in @ : \A n \in gone : e.src # n.id /\ e.dst # n.id}]

\* WITH n LIMIT limit: at most limit of the nodes found
RECURSIVE Limit(_, _)
Limit(found, limit) ==
    IF found = {} \/ limit = 0 THEN {}
    ELSE {CHOOSE n \in found : \A m \in found : n.id <= m.id}
         \cup Limit(found \ {CHOOSE n \in found : \A m \in found : n.id <= m.id},
                    limit - 1)

\* while True: MATCH (n) WHERE n:label.. WITH n LIMIT limit DETACH DELETE n;
\* the loop ends with the statement that deletes nothing
RECURSIVE DeleteInBatches(_, _, _)
DeleteInBatches(st, labels, limit) ==
    IF \A n \in st.nodes : n.label \notin labels THEN st
    ELSE DeleteInBatches(
             DetachDelete(st, Limit({n \in st.nodes : n.label \in labels}, limit)),
             labels, limit)

\* for label in labels: the loop above for one label
RECURSIVE ClearLabels(_, _, _)
ClearLabels(st, labels, limit) ==
    IF labels = <<>> THEN st
    ELSE ClearLabels(DeleteInBatches(st, {Head(labels)}, limit), Tail(labels), limit)

DELETE_LIMIT == 500

clear_documents(st) == DeleteInBatches(st, {"Document", "Chunk"}, DELETE_LIMIT)

\* extractor.EXTRACTED_LABELS
EXTRACTED_LABELS ==
    <<"FaultCode", "PartNumber", "OperatingLimit", "MaintenanceTask", "ATAChapter">>

clear_extracted(st) == ClearLabels(st, EXTRACTED_LABELS, DELETE_LIMIT)

\* pipeline.EXTRACTED_LABELS
PipelineExtractedLabels == <<"OperatingLimit">>

\* faulty variant: every node is swept, whatever its label
ClearAllNodes(st) == DetachDelete(st, st.nodes)

clear_enrichment_data(st) ==
    ClearLabels(ClearLabels(st, <<"Document", "Chunk">> \o PipelineExtractedLabels,
                            DELETE_LIMIT),
                <<"__Entity__", "__KGBuilder__">>, DELETE_LIMIT)

---------------------------------------------------------------------------
(* fetch_chunks: extractor.py 88-122 *)

\* rows of MATCH (c:Chunk)-[:FROM_DOCUMENT]->(d:Document), as <<c, d>> pairs
ChunkRows(st, document_id) ==
    {<<c, d>> \in {n \in st.nodes : n.label = "Chunk"}
                  \X {n \in st.nodes : n.label = "Document"} :
        /\ \E e \in st.edges : e.type = "FROM_DOCUMENT" /\ e.src = c.id /\ e.dst = d.id
        /\ (document_id # "" => d.props.documentId = document_id)}

RowBefore(r, q) ==
    \/ DocOrder(r[1].props.documentId) < DocOrder(q[1].props.documentId)
    \/ /\ DocOrder(r[1].props.documentId) = DocOrder(q[1].props.documentId)
       /\ \/ r[1].props.index < q[1].props.index
          \/ r[1].props.index = q[1].props.index /\ r[1].id <= q[1].id

\* faulty variant: ORDER BY c.documentId DESC, c.index DESC
RECURSIVE SortRowsDescending(_)
SortRowsDescending(rows) ==
    IF rows = {} THEN <<>>
    ELSE LET first == CHOOSE r \in rows : \A q \in rows : RowBefore(q, r)
         IN <<first>> \o SortRowsDescending(rows \ {first})

\* ORDER BY c.documentId, c.index
RECURSIVE SortRows(_)
SortRows(rows) ==
    IF rows = {} THEN <<>>
    ELSE LET first == CHOOSE r \in rows : \A q \in rows : RowBefore(r, q)
         IN <<first>> \o SortRows(rows \ {first})

\* document_id "" and limit 0 stand for None (both are falsy in the code)
fetch_chunks(st, document_id, limit) ==
    LET sorted == SortRows(ChunkRows(st, document_id))
        rows == [i \in 1..Len(sorted) |->
                   [documentId |-> sorted[i][1].props.documentId,
                    chunkIndex |-> sorted[i][1].props.index,
                    text |-> sorted[i][1].props.text,
                    aircraftType |-> sorted[i][2].props.aircraftType]]
    IN IF limit # 0 THEN Prefix(rows, limit) ELSE rows

---------------------------------------------------------------------------
(* run_extraction: extractor.py 626-689, one action per step *)

Raise == [k |-> "raise", v |-> <<>>]
Content(x) == [k |-> "content", v |-> x]

\* arguments the model passes to run_extraction ("" and 0 stand for None)
DocumentIdArgs == {"", DOCUMENTS[2].document_id, "AMM-UNKNOWN"}
LimitArgs == 0..MaxChunks

Store == [nodes |-> nodes, edges |-> edges, nextId |-> nextId]

\* steps 1: fetch the chunks; return when there are none. The model starts
\* a run only while the numbers of runs, rows and calls stay within bounds
FetchWithin(pcs, document_ids, limits, max_runs, max_chunks, max_calls) ==
    /\ pc \in pcs
    /\ runs < max_runs
    /\ \E document_id \in document_ids, limit \in limits :
         LET rows == fetch_chunks(Store, document_id, limit) IN
         /\ Len(rows) <= max_chunks
         /\ calls + Len(rows) <= max_calls
         /\ chunks' = rows
         /\ pc' = IF rows = <<>> THEN "done" ELSE "extract"
    /\ runs' = runs + 1
    /\ all_extractions' = <<>>
    /\ responses' = <<>>
    /\ deduplicated' = EmptyDicts
    /\ exc' = "none"
    /\ UNCHANGED <<adminVars, provider, context, nodes, edges, nextId, calls, embedVars>>

FetchFrom(pcs) ==
    FetchWithin(pcs, DocumentIdArgs, LimitArgs, MaxRuns, MaxChunks, MaxCalls)

\* faulty variant: the run goes on to deduplicate after the first chunk
ExtractChunkThenDedup(Responses) ==
    /\ pc = "extract"
    /\ \E response \in Responses :
         /\ responses' = Append(responses, response)
         /\ all_extractions' =
              Append(all_extractions,
                     [documentId |-> chunks[Len(all_extractions) + 1].documentId,
                      chunkIndex |-> chunks[Len(all_extractions) + 1].chunkIndex,
                      aircraftType |-> chunks[Len(all_extractions) + 1].aircraftType,
                      entities |-> extract_entities_from_chunk(response)])
         /\ IF extract_entities_from_chunk(response).k # "obj"
            THEN pc' = "raised" /\ exc' = "AttributeError"
            ELSE pc' = "dedup" /\ exc' = exc
    /\ calls' = calls + 1
    /\ UNCHANGED <<adminVars, provider, context, nodes, edges, nextId, chunks, deduplicated, runs, embedVars>>

\* step 2, one iteration: the LLM answers for the next chunk
ExtractChunk(Responses) ==
    /\ pc = "extract"
    /\ \E response \in Responses :
         LET chunk == chunks[Len(all_extractions) + 1]
             entities == extract_entities_from_chunk(response)
         IN
         /\ responses' = Append(responses, response)
         /\ all_extractions' =
              Append(all_extractions,
                     [documentId |-> chunk.documentId,
                      chunkIndex |-> chunk.chunkIndex,
                      aircraftType |-> chunk.aircraftType,
                      entities |-> entities])
         \* entities.values()
         /\ IF entities.k # "obj"
            THEN pc' = "raised" /\ exc' = "AttributeError"
            ELSE /\ pc' = IF Len(all_extractions) + 1 = Len(chunks)
                          THEN "dedup" ELSE "extract"
                 /\ exc' = exc
    /\ calls' = calls + 1
    /\ UNCHANGED <<adminVars, provider, context, nodes, edges, nextId, chunks, deduplicated, runs, embedVars>>

\* step 3
DedupResult(r) ==
    IF IsExc(r)
    THEN pc' = "raised" /\ exc' = r.v /\ deduplicated' = deduplicated
    ELSE pc' = "write_fault_codes" /\ exc' = exc /\ deduplicated' = r.v

Dedup ==
    /\ pc = "dedup"
    /\ DedupResult(_collect_and_deduplicate(all_extractions))
    /\ UNCHANGED <<adminVars, provider, context, nodes, edges, nextId, chunks, all_extractions, responses, runs, calls, embedVars>>

---------------------------------------------------------------------------
(* run_extraction steps 4 and 5: extractor.py 670-689 *)

SetStore(st) == nodes' = st.nodes /\ edges' = st.edges /\ nextId' = st.nextId

WriteFaultCodes ==
    /\ pc = "write_fault_codes"
    /\ SetStore(_write_fault_codes(Store, deduplicated.fault_codes))
    /\ pc' = "write_part_numbers"
    /\ UNCHANGED <<adminVars, provider, context, chunks, all_extractions, deduplicated, exc, responses, runs, calls, embedVars>>

WritePartNumbers ==
    /\ pc = "write_part_numbers"
    /\ SetStore(_write_part_numbers(Store, deduplicated.part_numbers))
    /\ pc' = "write_operating_limits"
    /\ UNCHANGED <<adminVars, provider, context, chunks, all_extractions, deduplicated, exc, responses, runs, calls, embedVars>>

WriteOperatingLimits ==
    /\ pc = "write_operating_limits"
    /\ SetStore(_write_operating_limits(Store, deduplicated.operating_limits))
    /\ pc' = "write_maintenance_tasks"
    /\ UNCHANGED <<adminVars, provider, context, chunks, all_extractions, deduplicated, exc, responses, runs, calls, embedVars>>

WriteMaintenanceTasks ==
    /\ pc = "write_maintenance_tasks"
    /\ SetStore(_write_maintenance_tasks(Store, deduplicated.maintenance_tasks))
    /\ pc' = "write_ata_chapters"
    /\ UNCHANGED <<adminVars, provider, context, chunks, all_extractions, deduplicated, exc, responses, runs, calls, embedVars>>

WriteATAChapters ==
    /\ pc = "write_ata_chapters"
    /\ SetStore(_write_ata_chapters(Store, deduplicated.ata_chapters))
    /\ pc' = "link"
    /\ UNCHANGED <<adminVars, provider, context, chunks, all_extractions, deduplicated, exc, responses, runs, calls, embedVars>>

LinkResult(r) ==
    /\ SetStore(r.st)
    /\ exc' = r.exc
    /\ pc' = IF r.exc = "none" THEN "done" ELSE "raised"

Link ==
    /\ pc = "link"
    /\ LinkResult(_link_to_existing_graph(Store))
    /\ UNCHANGED <<adminVars, provider, context, chunks, all_extractions, deduplicated, responses, runs, calls, embedVars>>

\* steps 4 and 5 against a store whose statements may fail
WritePc ==
    [fault_codes |-> "write_fault_codes", part_numbers |-> "write_part_numbers",
     operating_limits |-> "write_operating_limits",
     maintenance_tasks |-> "write_maintenance_tasks",
     ata_chapters |-> "write_ata_chapters"]

AfterWrite ==
    [fault_codes |-> "write_part_numbers",
     part_numbers |-> "write_operating_limits",
     operating_limits |-> "write_maintenance_tasks",
     maintenance_tasks |-> "write_ata_chapters",
     ata_chapters |-> "link"]

\* faulty variant: run_extraction goes on with the next step after a raise
WriteResultContinues(etype, r) ==
    /\ SetStore(r.st)
    /\ exc' = r.exc
    /\ pc' = AfterWrite[etype]

WriteResult(etype, r) ==
    /\ SetStore(r.st)
    /\ exc' = r.exc
    /\ pc' = IF r.exc = "none" THEN AfterWrite[etype] ELSE "raised"

WriteOrFail(etype) ==
    /\ pc = WritePc[etype]
    /\ \E outcome \in WriteOutcomes :
         WriteResult(etype, WriteWith(etype, Store, deduplicated[etype], outcome))
    /\ UNCHANGED <<adminVars, provider, context, chunks, all_extractions, deduplicated, responses, runs, calls, embedVars>>

LinkOrFail ==
    /\ pc = "link"
    /\ \E fail_at \in 1..(LinkStatements + 1) :
         LinkResult(LinkFrom(Store, 1, fail_at))
    /\ UNCHANGED <<adminVars, provider, context, chunks, all_extractions, deduplicated, responses, runs, calls, embedVars>>

---------------------------------------------------------------------------
(* The embed command: process_document for every document of the registry,  *)
(* in registry order (embedder.py 218-245), one action per step             *)

Commands == {"idle", "done", "raised"}

ResetLocals ==
    /\ chunks' = <<>>
    /\ all_extractions' = <<>>
    /\ responses' = <<>>
    /\ deduplicated' = EmptyDicts
    /\ split_chunks' = <<>>
    /\ chunk_data' = <<>>
    /\ ids' = <<>>
    /\ embeddings' = <<>>
    /\ exc' = "none"

\* the command starts with the first document of the registry
StartEmbedWithin(max_runs) ==
    /\ pc \in Commands
    /\ runs < max_runs
    /\ runs' = runs + 1
    /\ doc_pos' = 1
    /\ pc' = "split_text"
    /\ ResetLocals
    /\ UNCHANGED <<adminVars, provider, context, nodes, edges, nextId, calls>>

StartEmbed == StartEmbedWithin(MaxRuns)

\* text = read_text().strip(); chunks = split_text(text, ...)
SplitTextInto(counts) ==
    /\ pc = "split_text"
    /\ \E n \in counts : split_chunks' = Windows(DOCUMENTS[doc_pos], n)
    /\ pc' = "create_document"
    /\ UNCHANGED <<adminVars, provider, context, nodes, edges, nextId, exc, runs, calls, runVars,
                   doc_pos, chunk_data, ids, embeddings>>

SplitText == SplitTextInto(1..MaxTexts)

CreateDocument ==
    /\ pc = "create_document"
    /\ SetStore(create_document(Store, DOCUMENTS[doc_pos]))
    /\ pc' = "create_chunks"
    /\ UNCHANGED <<adminVars, provider, context, exc, runs, calls, runVars, embedVars>>

ChunksCreated(st) ==
    /\ SetStore(st)
    /\ chunk_data' = RowsOf(st, DOCUMENTS[doc_pos].document_id)

\* chunk_data = create_chunks_and_relationships(driver, meta, chunks)
CreateChunks ==
    /\ pc = "create_chunks"
    /\ ChunksCreated(create_chunks_and_relationships(Store, DOCUMENTS[doc_pos],
                                                     split_chunks))
    /\ ids' = <<>>
    /\ embeddings' = <<>>
    /\ pc' = "embed_query"
    /\ UNCHANGED <<adminVars, provider, context, exc, runs, calls, runVars, doc_pos, split_chunks>>

\* one iteration of the loop of generate_and_store_embeddings: embed_query
\* returns a vector or raises; nothing catches the exception
EmbedQuery(budget) ==
    /\ pc = "embed_query"
    /\ Len(ids) < Len(chunk_data)
    /\ calls < budget
    /\ calls' = calls + 1
    /\ \/ /\ ids' = Append(ids, chunk_data[Len(ids) + 1].eid)
          /\ embeddings' = Append(embeddings, Vector(chunk_data[Len(ids) + 1].text))
          /\ UNCHANGED <<pc, exc>>
       \/ /\ pc' = "raised"
          /\ exc' = "APIConnectionError"
          /\ UNCHANGED <<ids, embeddings>>
    /\ UNCHANGED <<adminVars, provider, context, nodes, edges, nextId, runs, runVars, doc_pos, split_chunks,
                   chunk_data>>

\* upsert_vectors after the loop; process_document returns and the next
\* document of the registry follows
UpsertVectors ==
    /\ pc = "embed_query"
    /\ Len(ids) = Len(chunk_data)
    /\ SetStore(upsert_vectors(Store, ids, embeddings))
    /\ doc_pos' = doc_pos + 1
    /\ pc' = IF doc_pos = Len(DOCUMENTS) THEN "done" ELSE "split_text"
    /\ UNCHANGED <<adminVars, provider, context, exc, runs, calls, runVars, split_chunks, chunk_data, ids,
                   embeddings>>

\* a clear command, run on its own
ClearWithin(st, max_runs) ==
    /\ pc \in Commands
    /\ runs < max_runs
    /\ runs' = runs + 1
    /\ SetStore(st)
    /\ pc' = "done"
    /\ ResetLocals
    /\ UNCHANGED <<adminVars, provider, context, calls, doc_pos>>

ClearWith(st) == ClearWithin(st, MaxRuns)

ClearDocuments == ClearWith(clear_documents(Store))
ClearExtracted == ClearWith(clear_extracted(Store))
ClearEnrichment == ClearWith(clear_enrichment_data(Store))

\* no command has run; the store is st
InitProvided(st, given) ==
    /\ provider = given
    /\ labels_to_clear = <<>> /\ deleted_total = 0 /\ count = 0
    /\ batch_limit = DELETE_LIMIT
    /\ elapsed = 0 /\ timeout_seconds = 0 /\ interval_seconds = 0
    /\ check_calls = 0 /\ returned = [has |-> FALSE] /\ check_fn = "none" /\ observed = [reached |-> FALSE]
    /\ clusters = {} /\ cluster_seq = 0 /\ emails = <<>>
    /\ context = <<>>
    /\ nodes = st.nodes /\ edges = st.edges /\ nextId = st.nextId
    /\ pc = "idle"
    /\ chunks = <<>>
    /\ all_extractions = <<>>
    /\ responses = <<>>
    /\ deduplicated = EmptyDicts
    /\ exc = "none"
    /\ runs = 0
    /\ calls = 0
    /\ doc_pos = 0
    /\ split_chunks = <<>>
    /\ chunk_data = <<>>
    /\ ids = <<>>
    /\ embeddings = <<>>

\* the splitter and the providers are free to return anything at each call
InitWith(st) == InitProvided(st, <<>>)

\* the store holds the operational graph and the chunks of every registry
\* document; no extraction has run
Init == \E n \in 1..MaxWindows : InitWith(MaterialiseAll(OperationalGraph, DOCUMENTS, n))

---------------------------------------------------------------------------
(* What the LLM may answer: observations and bundles *)

AllKeys == {EntityKeys[i] : i \in 1..Len(EntityKeys)}

\* a JSON object holding one entity list
Bundle(etype, items) ==
    O([key \in AllKeys |-> IF key = etype THEN items ELSE Absent])

FullBundle(fc, pn, ol, mt, ata) ==
    O([fault_codes |-> L(fc), part_numbers |-> L(pn), operating_limits |-> L(ol),
       maintenance_tasks |-> L(mt), ata_chapters |-> L(ata)])

FaultObs(code, description, severity_levels) ==
    O([code |-> code, description |-> description,
       severity_levels |-> severity_levels,
       ata_chapter |-> S(<<"7","2">>), immediate_action |-> Absent])

PartObs(number, component_name, ata_reference) ==
    O([number |-> number, component_name |-> component_name,
       ata_reference |-> ata_reference])

LimitObs(parameter, regime, min_value, max_value) ==
    O([parameter |-> parameter, regime |-> regime, unit |-> Absent,
       min_value |-> min_value, max_value |-> max_value])

TaskObs(task_id, description) ==
    O([task_id |-> task_id, description |-> description, interval |-> Absent,
       interval_unit |-> Absent, duration_hours |-> None,
       personnel_count |-> Absent, personnel_type |-> Absent])

ChapterObs(chapter, title) == O([chapter |-> chapter, title |-> title])

\* the LLM call raised, or returned text that cannot be decoded, or text
\* that decodes to a bare string
Failures == {Raise, Content(Exc("JSONDecodeError")), Content(S(<<"n","/","a">>))}

SingleBundles(etype, observations) ==
    {Content(Bundle(etype, L(<<o>>))) : o \in observations}

FetchFirst == FetchFrom({"idle"})

---------------------------------------------------------------------------
(* Folding fault codes *)

MINOR == L(<<S(<<"M","I","N","O","R">>)>>)
CRITICAL == L(<<S(<<"C","R","I","T","I","C","A","L">>)>>)

FCObservations ==
    {FaultObs(S(<<"F","1">>), d, sv) :
        d \in {Absent, S(<<"a","b">>), S(<<"a","b","c","d">>)}, sv \in {Absent, MINOR, CRITICAL}}
    \cup {FaultObs(c, S(<<"a","b","c">>), MINOR) :
            c \in {Absent, None, S(<<>>), S(<<" "," ">>), S(<<" ","F","1"," ">>), S(<<"F","2">>)}}

FCResponses ==
    Failures
    \cup SingleBundles("fault_codes", FCObservations)
    \cup {Content(Bundle("fault_codes", L(<<FaultObs(S(<<"F","1">>), S(<<"a","b">>), MINOR), o>>))) :
            o \in {FaultObs(S(<<"F","1">>), S(<<"a","b","c","d">>), CRITICAL),
                   FaultObs(S(<<"F","2">>), S(<<"a","b","c">>), MINOR)}}

ExtractFC == ExtractChunk(FCResponses)
NextFC == FetchFirst \/ ExtractFC \/ Dedup
SpecFC == Init /\ [][NextFC]_vars

---------------------------------------------------------------------------
(* Folding operating limits *)

OLObservations ==
    {LimitObs(S(<<"E","G","T">>), S(<<"t","a","k","e","o","f","f">>), mn, mx) :
        mn \in {Absent, None, N(0), N(5)}, mx \in {None, N(0), N(9)}}
    \cup {LimitObs(pr[1], pr[2], N(1), N(2)) :
            pr \in {<<None, S(<<"t","a","k","e","o","f","f">>)>>, <<S(<<"E","G","T">>), S(<<>>)>>,
                    <<S(<<"E","G","T">>), S(<<" "," ">>)>>, <<S(<<" ","E","g","t"," ">>), S(<<"T","a","k","e"," ","O","f","f">>)>>}}

OLResponses ==
    {Raise}
    \cup SingleBundles("operating_limits", OLObservations)
    \cup {Content(Bundle("operating_limits",
                         L(<<LimitObs(S(<<"E","G","T">>), S(<<"t","a","k","e","o","f","f">>), N(5), N(9)),
                             LimitObs(S(<<"E","G","T">>), S(<<"t","a","k","e","o","f","f">>), None, N(0))>>)))}

ExtractOL == ExtractChunk(OLResponses)
NextOL == FetchFirst \/ ExtractOL \/ Dedup
SpecOL == Init /\ [][NextOL]_vars

---------------------------------------------------------------------------
(* Folding maintenance tasks *)

Repeat(c, n) == [i \in 1..n |-> c]

\* descriptions longer than the slug: the first two agree on their first
\* SlugLen characters, the last of which is a space
LongA == Repeat("x", SlugLen - 1) \o <<" ","a">>
LongB == Repeat("x", SlugLen - 1) \o <<" ","b","b">>
LongC == Repeat("x", SlugLen - 1) \o <<"y","c">>

MTObservations ==
    {TaskObs(t, S(d)) :
        t \in {Absent, S(<<"T","1">>)},
        d \in {LongA, LongB, LongC, <<"C","h","e","c","k"," ","O","i","l">>, <<" ","c","h","e","c","k"," ","o","i","l"," ">>, <<"c","h","e","c","k","_","o","i","l">>}}
    \cup {TaskObs(t, S(<<"C","h","e","c","k"," ","O","i","l">>)) : t \in {None, S(<<>>), S(<<" ","T","1"," ">>), S(<<" "," ">>)}}
    \cup {TaskObs(S(<<"T","1">>), d) : d \in {Absent, None, S(<<>>), S(<<" "," ">>)}}

MTResponses ==
    {Raise} \cup SingleBundles("maintenance_tasks", MTObservations)

ExtractMT == ExtractChunk(MTResponses)
NextMT == FetchFirst \/ ExtractMT \/ Dedup
SpecMT == Init /\ [][NextMT]_vars

---------------------------------------------------------------------------
(* Whole runs of run_extraction, repeated *)

GoodBundle ==
    FullBundle(<<FaultObs(S(<<"F","1">>), S(<<"a","b">>), MINOR)>>,
               <<PartObs(S(<<"P","1">>), S(<<"F","A","N">>), S(<<"7","2","-","1","0">>))>>,
               <<LimitObs(S(<<"E","G","T">>), S(<<"t","a","k","e","o","f","f">>), N(0), N(9))>>,
               <<TaskObs(S(<<"T","1">>), S(<<"C","h","e","c","k"," ","O","i","l">>))>>,
               <<ChapterObs(S(<<"7","2">>), S(<<"E","n","g","i","n","e">>))>>)

OtherBundle ==
    FullBundle(<<FaultObs(S(<<"O","v","e","r","h","e","a","t">>), S(<<"a","b","c">>), CRITICAL),
                 FaultObs(S(<<"F","1">>), S(<<"a","b","c","d">>), CRITICAL)>>,
               <<PartObs(S(<<"P","1">>), None, None)>>,
               <<LimitObs(S(<<"E","G","T">>), S(<<"t","a","k","e","o","f","f">>), None, N(5))>>,
               <<TaskObs(S(<<" "," ">>), S(<<"C","h","e","c","k"," ","O","i","l">>))>>,
               <<ChapterObs(None, S(<<"P","o","w","e","r"," ","P","l","a","n","t">>))>>)

\* well-formed JSON that does not match the schema
NullList == Bundle("fault_codes", None)

RunResponses == {Raise, Content(GoodBundle), Content(OtherBundle), Content(NullList)}

Fetch == FetchFrom({"idle", "done", "raised"})
Extract == ExtractChunk(RunResponses)

Next ==
    \/ Fetch
    \/ Extract
    \/ Dedup
    \/ WriteFaultCodes
    \/ WritePartNumbers
    \/ WriteOperatingLimits
    \/ WriteMaintenanceTasks
    \/ WriteATAChapters
    \/ Link

Spec == Init /\ [][Next]_vars

---------------------------------------------------------------------------
(* Whole runs against a store whose write statements may fail *)

FailResponses == {Content(GoodBundle), Content(OtherBundle)}

\* a run that raised is not followed by another run
FetchFail == FetchFrom({"idle", "done"})
ExtractFail == ExtractChunk(FailResponses)

NextFail ==
    \/ FetchFail
    \/ ExtractFail
    \/ Dedup
    \/ \E etype \in AllKeys : WriteOrFail(etype)
    \/ LinkOrFail

SpecFail == Init /\ [][NextFail]_vars

---------------------------------------------------------------------------
(* The embed command, repeated, with and without clear_documents between *)

InitEmbed ==
    \/ InitWith(OperationalGraph)
    \/ \E n \in 1..MaxTexts : InitWith(MaterialiseAll(OperationalGraph, DOCUMENTS, n))

Embed == EmbedQuery(MaxEmbedCalls)

NextEmbed ==
    \/ StartEmbed
    \/ SplitText
    \/ CreateDocument
    \/ CreateChunks
    \/ Embed
    \/ UpsertVectors
    \/ ClearDocuments

SpecEmbed == InitEmbed /\ [][NextEmbed]_vars

---------------------------------------------------------------------------
(* The commands together: extraction runs, embed passes and the three       *)
(* clear operations, in any order, on a store that holds the documents      *)

EmbedLife == EmbedQuery(MaxCalls)

NextLife ==
    \/ Fetch
    \/ ExtractFail
    \/ Dedup
    \/ WriteFaultCodes
    \/ WritePartNumbers
    \/ WriteOperatingLimits
    \/ WriteMaintenanceTasks
    \/ WriteATAChapters
    \/ Link
    \/ StartEmbed
    \/ SplitText
    \/ CreateDocument
    \/ CreateChunks
    \/ EmbedLife
    \/ UpsertVectors
    \/ ClearDocuments
    \/ ClearExtracted
    \/ ClearEnrichment

SpecLife == Init /\ [][NextLife]_vars

---------------------------------------------------------------------------
(* Runs whose answers spell the parameter of one operating limit in two ways *)

LowerLimitBundle ==
    Bundle("operating_limits",
           L(<<LimitObs(S(<<"e","g","t">>), S(<<"t","a","k","e","o","f","f">>), None, N(7))>>))

LinkResponses == {Content(GoodBundle), Content(LowerLimitBundle)}

ExtractLink == ExtractChunk(LinkResponses)

NextLink ==
    \/ Fetch
    \/ ExtractLink
    \/ Dedup
    \/ WriteFaultCodes
    \/ WritePartNumbers
    \/ WriteOperatingLimits
    \/ WriteMaintenanceTasks
    \/ WriteATAChapters
    \/ Link

SpecLink == Init /\ [][NextLink]_vars

---------------------------------------------------------------------------
(* The pipeline repeated with clear_enrichment_data between: embed pass,    *)
(* extraction run and clear in any order, the splitter and the providers    *)
(* returning the same for the same input throughout a behaviour             *)

MaxResetRuns == 5   \* commands in one behaviour

ResetResponses == {Content(GoodBundle), Content(OtherBundle), Content(LowerLimitBundle)}

\* every document splits into the same number of windows, and the LLM's
\* answer for a chunk is a function of the chunk's index
Providers ==
    [windows : 1..MaxWindows, answers : [1..MaxWindows -> ResetResponses]]

AnswerFor(chunk) == provider.answers[chunk.chunkIndex + 1]

ResetCalls == 2 * MaxResetRuns * Len(DOCUMENTS) * MaxWindows

InitReset == \E given \in Providers : InitProvided(OperationalGraph, given)

FetchReset ==
    FetchWithin(Commands, {""}, {0}, MaxResetRuns, Len(DOCUMENTS) * MaxWindows,
                ResetCalls)
ExtractReset == ExtractChunk({AnswerFor(chunks[Len(all_extractions) + 1])})
StartReset == StartEmbedWithin(MaxResetRuns)
SplitReset == SplitTextInto({provider.windows})
\* the embedding provider answers every call
EmbedReset == EmbedQuery(ResetCalls) /\ pc' = pc
ClearReset == ClearWithin(clear_enrichment_data(Store), MaxResetRuns)

NextReset ==
    \/ FetchReset
    \/ ExtractReset
    \/ Dedup
    \/ WriteFaultCodes
    \/ WritePartNumbers
    \/ WriteOperatingLimits
    \/ WriteMaintenanceTasks
    \/ WriteATAChapters
    \/ Link
    \/ StartReset
    \/ SplitReset
    \/ CreateDocument
    \/ CreateChunks
    \/ EmbedReset
    \/ UpsertVectors
    \/ ClearReset

SpecReset == InitReset /\ [][NextReset]_vars

---------------------------------------------------------------------------
(* Whole runs in which a chunk may report the same entity twice *)

\* one chunk reports the fault code F1 and the part number P1 twice each
TwiceBundle ==
    FullBundle(<<FaultObs(S(<<"F","1">>), S(<<"a","b">>), MINOR),
                 FaultObs(S(<<"F","1">>), S(<<"a","b","c">>), CRITICAL)>>,
               <<PartObs(S(<<"P","1">>), S(<<"F","A","N">>), S(<<"7","2","-","1","0">>)),
                 PartObs(S(<<"P","1">>), None, S(<<"7","2","-","1","0">>))>>,
               <<>>, <<>>,
               <<ChapterObs(S(<<"7","2">>), S(<<"E","n","g","i","n","e">>))>>)

ProvResponses == {Content(GoodBundle), Content(TwiceBundle), Raise}
ExtractProv == ExtractChunk(ProvResponses)

NextProv ==
    \/ Fetch
    \/ ExtractProv
    \/ Dedup
    \/ WriteFaultCodes
    \/ WritePartNumbers
    \/ WriteOperatingLimits
    \/ WriteMaintenanceTasks
    \/ WriteATAChapters
    \/ Link

SpecProv == Init /\ [][NextProv]_vars

---------------------------------------------------------------------------
(* process_all_documents and ContextPrependingSplitter: pipeline.py 58-88,  *)
(* 352-382. A text is the sequence of its pieces.                           *)

\* faulty variant: the context of the first document, set once
SplitterContextOfFirst(meta) ==
    <<"[DOCUMENT CONTEXT] Aircraft Type: ">> \o DOCUMENTS[1].aircraft_type.v
    \o <<" | Title: ", DOCUMENTS[1].title, "\n\n">>

\* f"[DOCUMENT CONTEXT] Aircraft Type: {meta.aircraft_type} | Title: {meta.title}\n\n"
SplitterContext(meta) ==
    <<"[DOCUMENT CONTEXT] Aircraft Type: ">> \o meta.aircraft_type.v
    \o <<" | Title: ", meta.title, "\n\n">>

\* if self.context: for chunk in result.chunks: chunk.text = self.context + chunk.text
Prepended(ctx, result) ==
    IF ctx # <<>> THEN [i \in 1..Len(result) |-> ctx \o result[i]] ELSE result

\* what the inner splitter may return: up to MaxTexts chunks, in some order
ChunkTexts == {<<"a">>, <<"b", "c">>, <<"[DOCUMENT CONTEXT] Aircraft Type: ">>}

InnerResults == UNION {[1..n -> ChunkTexts] : n \in 0..MaxTexts}

\* pipeline, splitter = _create_pipeline(...): the splitter has context ""
StartAll ==
    /\ pc \in Commands
    /\ runs < MaxRuns
    /\ runs' = runs + 1
    /\ doc_pos' = 1
    /\ context' = <<>>
    /\ pc' = "set_context"
    /\ ResetLocals
    /\ UNCHANGED <<adminVars, provider, nodes, edges, nextId, calls>>

\* splitter.context = f"..." for the document of this iteration
SetContext ==
    /\ pc = "set_context"
    /\ context' = SplitterContext(DOCUMENTS[doc_pos])
    /\ pc' = "inner_run"
    /\ UNCHANGED <<adminVars, provider, nodes, edges, nextId, exc, runs, calls, runVars, embedVars>>

\* the splitter as constructed is run without a context having been set
RunUnset ==
    /\ pc \in Commands
    /\ runs < MaxRuns
    /\ runs' = runs + 1
    /\ doc_pos' = 0
    /\ context' = <<>>
    /\ pc' = "inner_run"
    /\ ResetLocals
    /\ UNCHANGED <<adminVars, provider, nodes, edges, nextId, calls>>

\* result = await self.inner.run(text)
InnerRun ==
    /\ pc = "inner_run"
    /\ \E result \in InnerResults : split_chunks' = result
    /\ pc' = "prepend"
    /\ UNCHANGED <<adminVars, provider, context, nodes, edges, nextId, exc, runs, calls, runVars,
                   doc_pos, chunk_data, ids, embeddings>>

\* the loop over result.chunks; run returns the result, which the pipeline
\* hands to the embedder and to the LLM
Prepend ==
    /\ pc = "prepend"
    /\ split_chunks' = Prepended(context, split_chunks)
    /\ pc' = "handed"
    /\ UNCHANGED <<adminVars, provider, context, nodes, edges, nextId, exc, runs, calls, runVars,
                   doc_pos, chunk_data, ids, embeddings>>

\* run_async returns; the loop goes on with the next document
NextDocument ==
    /\ pc = "handed"
    /\ doc_pos' = IF doc_pos = 0 THEN 0 ELSE doc_pos + 1
    /\ pc' = IF doc_pos \in 1..(Len(DOCUMENTS) - 1) THEN "set_context" ELSE "done"
    /\ UNCHANGED <<adminVars, provider, context, nodes, edges, nextId, exc, runs, calls, runVars,
                   split_chunks, chunk_data, ids, embeddings>>

NextContext ==
    \/ StartAll
    \/ SetContext
    \/ RunUnset
    \/ InnerRun
    \/ Prepend
    \/ NextDocument

SpecContext == InitWith(OperationalGraph) /\ [][NextContext]_vars

---------------------------------------------------------------------------
(* The batched delete loops, one statement at a time: embedder.py 77-92,
   extractor.py 605-618, pipeline.py 417-444, loader.py 309-323 *)

MaxLimit == 2       \* LIMITs of the delete statement tried besides the code's 500

\* the extractions of a run in which the LLM answers answers[index + 1]
PipelineExtractions(rows, answers) ==
    [i \in 1..Len(rows) |->
        [documentId |-> rows[i].documentId,
         chunkIndex |-> rows[i].chunkIndex,
         aircraftType |-> rows[i].aircraftType,
         entities |-> extract_entities_from_chunk(answers[rows[i].chunkIndex + 1])]]

ExtractedFrom(st, answers) ==
    _collect_and_deduplicate(PipelineExtractions(fetch_chunks(st, "", 0), answers))

\* MATCH (n) of clear_database: every node, whatever its label
AnyLabel == {"*"}

\* the nodes the MATCH of a delete statement finds
Matching(st, labels) ==
    IF labels = AnyLabel THEN st.nodes ELSE {n \in st.nodes : n.label \in labels}

\* WITH n LIMIT limit, when the store hands out the nodes of lowest id first
LowestIds(found, limit) ==
    {n \in found : Cardinality({m \in found : m.id < n.id}) < limit}

\* WITH n LIMIT limit, when it hands out the nodes of highest id first
HighestIds(found, limit) ==
    {n \in found : Cardinality({m \in found : m.id > n.id}) < limit}

\* the statement has no ORDER BY: which nodes fall within the LIMIT is the
\* store's choice
Batches(found, limit) == {LowestIds(found, limit), HighestIds(found, limit)}

\* faulty variant: break after the first statement, whatever it deleted
RemainingAfterFirstRound(labels, deleted) == Tail(labels)

\* if count == 0: break -- the loop of the first label set ends, the next
\* one (if any) starts
RemainingAfter(labels, deleted) ==
    IF deleted = 0 THEN Tail(labels) ELSE labels

\* one label set per while loop, in the order the loops run
DocumentLoops == <<{"Document", "Chunk"}>>
ExtractedLoops == [i \in 1..Len(EXTRACTED_LABELS) |-> {EXTRACTED_LABELS[i]}]
EnrichmentLoops ==
    [i \in 1..(2 + Len(PipelineExtractedLabels) + 2) |->
        {(<<"Document", "Chunk">> \o PipelineExtractedLabels
            \o <<"__Entity__", "__KGBuilder__">>)[i]}]
DatabaseLoops == <<AnyLabel>>

BatchLimits == (1..MaxLimit) \cup {DELETE_LIMIT}

\* deleted_total = 0, before the first statement
StartLoops(loops) ==
    /\ pc \in Commands
    /\ runs < MaxRuns
    /\ runs' = runs + 1
    /\ labels_to_clear' = loops
    /\ deleted_total' = 0
    /\ count' = 0
    /\ \E limit \in BatchLimits : batch_limit' = limit
    /\ pc' = "clearing"
    /\ ResetLocals
    /\ UNCHANGED <<pollVars, clusterVars, provider, context, nodes, edges, nextId,
                   calls, doc_pos>>

StartClearDocuments == StartLoops(DocumentLoops)
StartClearExtracted == StartLoops(ExtractedLoops)
StartClearEnrichment == StartLoops(EnrichmentLoops)
StartClearDatabase == StartLoops(DatabaseLoops)

\* one execute_query of a loop, and what follows it up to the next one
DeleteRound ==
    /\ pc = "clearing"
    /\ \E gone \in Batches(Matching(Store, Head(labels_to_clear)), batch_limit) :
          /\ SetStore(DetachDelete(Store, gone))
          /\ count' = Cardinality(gone)
          /\ deleted_total' = deleted_total + Cardinality(gone)
          /\ labels_to_clear' = RemainingAfter(labels_to_clear, Cardinality(gone))
          /\ pc' = IF RemainingAfter(labels_to_clear, Cardinality(gone)) = <<>>
                   THEN "done" ELSE "clearing"
    /\ UNCHANGED <<pollVars, clusterVars, provider, context, batch_limit, runs, calls,
                   exc, runVars, embedVars>>

\* the answers of a pipeline run that reports the same bundle for every chunk
SameAnswers == [i \in 1..MaxWindows |-> Content(GoodBundle)]

\* nodes as SimpleKGPipeline leaves them, one per bookkeeping label
WithBookkeeping(st) ==
    CreateNode(CreateNode(st, "__Entity__", [name |-> "e"], <<>>),
               "__KGBuilder__", [name |-> "k"], <<>>)

\* the operational graph with n chunks per document, and (written) with the
\* entities of an extraction run and the pipeline's bookkeeping nodes
InitClear ==
    \E n \in 0..MaxWindows, written \in BOOLEAN :
    \E st0 \in {MaterialiseAll(OperationalGraph, DOCUMENTS, n)} :
        IF written
        THEN \E r \in {ExtractedFrom(st0, SameAnswers)} :
             \E st1 \in {_write_fault_codes(st0, r.v.fault_codes)} :
             \E st2 \in {_write_part_numbers(st1, r.v.part_numbers)} :
             \E st3 \in {_write_operating_limits(st2, r.v.operating_limits)} :
             \E st4 \in {_write_maintenance_tasks(st3, r.v.maintenance_tasks)} :
             \E st5 \in {_write_ata_chapters(st4, r.v.ata_chapters)} :
                 InitWith(WithBookkeeping(_link_to_existing_graph(st5).st))
        ELSE InitWith(st0)

NextClear ==
    \/ StartClearDocuments
    \/ StartClearExtracted
    \/ StartClearEnrichment
    \/ StartClearDatabase
    \/ DeleteRound

\* each loop runs on its own; nothing keeps its next statement from running
SpecClear == InitClear /\ [][NextClear]_vars /\ WF_vars(DeleteRound)

---------------------------------------------------------------------------
(* poll_until and its callers: utils.py 30-59, cluster.py 137-169,
   libraries.py 32-49 and 84-113 *)

MaxTimeout == 4     \* timeout_seconds tried besides the default
MaxInterval == 3    \* interval_seconds tried besides the default
MaxLibraries == 1   \* libraries whose status one call reads
MaxPolls == 2       \* poll_until calls in one behaviour

TIMEOUT_DEFAULT == 600
INTERVAL_DEFAULT == 15

\* databricks.sdk.service.compute.State
ClusterStates ==
    {"PENDING", "RUNNING", "RESTARTING", "RESIZING", "TERMINATING", "TERMINATED",
     "ERROR", "UNKNOWN"}

\* databricks.sdk.service.compute.LibraryInstallStatus, one value of each
\* kind count_library_states tells apart, and one it does not count
LibraryStates == {"INSTALLED", "RESOLVING", "FAILED", "SKIPPED"}

\* what a check_fn does: return (done, result), or raise
Returns(done, value) == [raises |-> "none", done |-> done, result |-> value]
Raises(exception) == [raises |-> exception, done |-> FALSE, result |-> <<>>]

\* check_state of wait_for_cluster_running, on the state clusters.get reports
check_state(state) ==
    IF state = "RUNNING" THEN Returns(TRUE, state)
    ELSE IF state \in {"TERMINATED", "ERROR", "UNKNOWN"} THEN Raises("RuntimeError")
    ELSE Returns(FALSE, state)

\* count_library_states: (total, installed, pending, failed)
count_library_states(statuses) ==
    [total |-> Len(statuses),
     installed |-> Cardinality({i \in DOMAIN statuses : statuses[i] = "INSTALLED"}),
     pending |-> Cardinality({i \in DOMAIN statuses :
                                 statuses[i] \in {"PENDING", "RESOLVING", "INSTALLING"}}),
     failed |-> Cardinality({i \in DOMAIN statuses : statuses[i] = "FAILED"})]

\* check_status of wait_for_libraries, on the statuses cluster_status reports
check_status(statuses) ==
    Returns(count_library_states(statuses).pending = 0, statuses)

\* poll_until's return value
NotReturned == [has |-> FALSE]
ReturnValue(value) == [has |-> TRUE, value |-> value]

\* what the client may answer to each check_fn: a value, or an error
Answered(value) == [reached |-> TRUE, value |-> value]
Unreachable == [reached |-> FALSE]

Observations(fn) ==
    {Unreachable} \cup
        {Answered(v) : v \in IF fn = "check_state" THEN ClusterStates
                             ELSE UNION {[1..n -> LibraryStates] : n \in 0..MaxLibraries}}

\* the call of check_fn; an error of the client escapes it
CheckFn(fn, seen) ==
    IF ~seen.reached THEN Raises("DatabricksError")
    ELSE IF fn = "check_state" THEN check_state(seen.value)
    ELSE check_status(seen.value)

\* faulty variant: one more round when the wait has just reached the timeout
WithinTimeoutInclusive(waited, timeout) == waited <= timeout

\* while elapsed < timeout_seconds
WithinTimeout(waited, timeout) == waited < timeout

PollArguments ==
    ((0..MaxTimeout) \X (1..MaxInterval)) \cup {<<TIMEOUT_DEFAULT, INTERVAL_DEFAULT>>}

\* poll_until(check_fn, timeout_seconds, interval_seconds): elapsed = 0
StartPoll(fn) ==
    /\ pc \in Commands
    /\ runs < MaxPolls
    /\ runs' = runs + 1
    /\ check_fn' = fn
    /\ \E a \in PollArguments : timeout_seconds' = a[1] /\ interval_seconds' = a[2]
    /\ elapsed' = 0
    /\ check_calls' = 0
    /\ returned' = NotReturned
    /\ observed' = Unreachable
    /\ pc' = "poll"
    /\ exc' = "none"
    /\ UNCHANGED <<clearVars, clusterVars, provider, context, nodes, edges, nextId,
                   calls, runVars, embedVars>>

wait_for_cluster_running == StartPoll("check_state")
wait_for_libraries == StartPoll("check_status")

\* one round of the while loop: the call of check_fn, and the sleep after it
PollRound ==
    /\ pc = "poll"
    /\ WithinTimeout(elapsed, timeout_seconds)
    /\ check_calls' = check_calls + 1
    /\ \E seen \in Observations(check_fn) :
          /\ observed' = seen
          /\ IF CheckFn(check_fn, seen).raises # "none"
             THEN /\ pc' = "raised"
                  /\ exc' = CheckFn(check_fn, seen).raises
                  /\ UNCHANGED <<elapsed, returned>>
             ELSE IF CheckFn(check_fn, seen).done
             THEN /\ pc' = "done"
                  /\ returned' = ReturnValue(CheckFn(check_fn, seen).result)
                  /\ UNCHANGED <<elapsed, exc>>
             ELSE /\ elapsed' = elapsed + interval_seconds
                  /\ UNCHANGED <<pc, exc, returned>>
    /\ UNCHANGED <<clearVars, clusterVars, provider, context, nodes, edges, nextId,
                   runs, calls, runVars, embedVars, timeout_seconds, interval_seconds,
                   check_fn>>

\* the loop condition fails: raise TimeoutError
PollTimeout ==
    /\ pc = "poll"
    /\ ~WithinTimeout(elapsed, timeout_seconds)
    /\ pc' = "raised"
    /\ exc' = "TimeoutError"
    /\ UNCHANGED <<clearVars, clusterVars, pollVars, provider, context, nodes, edges,
                   nextId, runs, calls, runVars, embedVars>>

NextPoll ==
    \/ wait_for_cluster_running
    \/ wait_for_libraries
    \/ PollRound
    \/ PollTimeout

\* poll_until runs in the one thread of the command: nothing keeps its next
\* round or its raise from running
SpecPoll ==
    InitWith(OperationalGraph) /\ [][NextPoll]_vars
        /\ WF_vars(PollRound) /\ WF_vars(PollTimeout)

---------------------------------------------------------------------------
(* Per-user clusters: users.py 14-45 and 78-96, cluster.py 55-65, 172-206,
   226-283, main.py 330-443 and 449-512 *)

MaxRows == 2        \* rows of the CSV file
MaxClusters == 3    \* clusters created in one behaviour

At == "@"

\* email.split(At)[0]
RECURSIVE BeforeAt(_)
BeforeAt(s) ==
    IF s = <<>> \/ Head(s) = At THEN <<>> ELSE <<Head(s)>> \o BeforeAt(Tail(s))

\* local.replace(".", "-")
ReplaceDots(s) == [i \in 1..Len(s) |-> IF s[i] = "." THEN "-" ELSE s[i]]

email_prefix(email) == ReplaceDots(BeforeAt(email))

_USER_CLUSTER_PREFIX == <<"l", "a", "b", "-">>

cluster_name_for_user(email) == _USER_CLUSTER_PREFIX \o email_prefix(email)

\* for row in reader: email = row[email_col].strip().lower();
\* if email and email not in seen: emails.append(email)
RECURSIVE ParseRows(_, _)
ParseRows(rows, parsed) ==
    IF rows = <<>> THEN parsed
    ELSE ParseRows(Tail(rows),
                   IF Lower(Strip(Head(rows))) # <<>>
                      /\ \A i \in DOMAIN parsed : parsed[i] # Lower(Strip(Head(rows)))
                   THEN Append(parsed, Lower(Strip(Head(rows))))
                   ELSE parsed)

parse_csv(rows) == ParseRows(rows, <<>>)

\* the workspace: its clusters, and the number of them it has created
Workspace == [clusters |-> clusters, cluster_seq |-> cluster_seq]

\* find_cluster: the first cluster of that name, {} when there is none
find_cluster(ws, cluster_name) ==
    {c \in ws.clusters :
        /\ c.cluster_name = cluster_name
        /\ \A d \in ws.clusters :
              d.cluster_name = cluster_name => c.cluster_id <= d.cluster_id}

\* find_user_clusters: the clusters whose name starts with lab-
find_user_clusters(ws) ==
    {c \in ws.clusters :
        /\ Len(c.cluster_name) >= Len(_USER_CLUSTER_PREFIX)
        /\ SubSeq(c.cluster_name, 1, Len(_USER_CLUSTER_PREFIX)) = _USER_CLUSTER_PREFIX}

\* clusters.create(cluster_name=config.name, single_user_name=user_email, ..)
create_cluster(ws, cluster_name, user_email) ==
    [clusters |-> ws.clusters \cup
                    {[cluster_id |-> ws.cluster_seq + 1, cluster_name |-> cluster_name,
                      state |-> "PENDING", assigned_user |-> user_email]},
     cluster_seq |-> ws.cluster_seq + 1]

\* start_cluster
start_cluster(ws, cluster_id) ==
    [ws EXCEPT !.clusters =
        {IF c.cluster_id = cluster_id THEN [c EXCEPT !.state = "PENDING"] ELSE c :
            c \in ws.clusters}]

\* get_or_create_cluster: a cluster of that name is taken as it is (started
\* when it is TERMINATED), whoever it is assigned to
get_or_create_cluster(ws, cluster_name, user_email) ==
    IF find_cluster(ws, cluster_name) = {}
    THEN create_cluster(ws, cluster_name, user_email)
    ELSE IF \E c \in find_cluster(ws, cluster_name) : c.state = "TERMINATED"
    THEN start_cluster(ws, (CHOOSE c \in find_cluster(ws, cluster_name) : TRUE).cluster_id)
    ELSE ws

create_user_cluster(ws, user_email) ==
    get_or_create_cluster(ws, cluster_name_for_user(user_email), user_email)

\* for email in user_emails_ok: skip when existing_clusters has a RUNNING
\* cluster of the user's cluster name, else create_user_cluster
RECURSIVE AddClusters(_, _, _)
AddClusters(ws, user_emails_ok, existing_clusters) ==
    IF user_emails_ok = <<>> THEN ws
    ELSE AddClusters(
             IF \E c \in existing_clusters :
                   /\ c.cluster_name = cluster_name_for_user(Head(user_emails_ok))
                   /\ c.state = "RUNNING"
             THEN ws
             ELSE create_user_cluster(ws, Head(user_emails_ok)),
             Tail(user_emails_ok), existing_clusters)

\* for uc in user_clusters: delete when uc.cluster_name in expected_names
DeleteClusters(ws, expected_names) ==
    [ws EXCEPT !.clusters =
        {c \in @ : ~(c \in find_user_clusters(ws) /\ c.cluster_name \in expected_names)}]

\* the rows of the CSV files tried
Rows ==
    {<<"j", ".", "d", At, "x">>, <<"j", "-", "d", At, "y">>, <<" ", "B", At, "x", " ">>,
     <<" ">>}

CsvFiles == UNION {[1..n -> Rows] : n \in 0..MaxRows}

SetWorkspace(ws) == clusters' = ws.clusters /\ cluster_seq' = ws.cluster_seq

UserCommand(parsed, ws) ==
    /\ pc \in Commands
    /\ runs < MaxRuns
    /\ runs' = runs + 1
    /\ ws.cluster_seq <= MaxClusters
    /\ emails' = parsed
    /\ SetWorkspace(ws)
    /\ pc' = "done"
    /\ ResetLocals
    /\ UNCHANGED <<clearVars, pollVars, provider, context, nodes, edges, nextId,
                   calls, doc_pos>>

\* _run_add_users, every user found or created
AddUsers ==
    \E rows \in CsvFiles, skip_clusters \in BOOLEAN :
        UserCommand(parse_csv(rows),
                    IF skip_clusters THEN Workspace
                    ELSE AddClusters(Workspace, parse_csv(rows),
                                     find_user_clusters(Workspace)))

\* _run_remove_users
RemoveUsers ==
    \E rows \in CsvFiles, keep_clusters \in BOOLEAN :
        UserCommand(parse_csv(rows),
                    IF keep_clusters THEN Workspace
                    ELSE DeleteClusters(Workspace,
                                        {cluster_name_for_user(parse_csv(rows)[i]) :
                                            i \in DOMAIN parse_csv(rows)}))

\* the workspace: a starting cluster comes up, a running one is terminated
\* when idle
ClusterChanges ==
    /\ pc \in Commands
    /\ \E c \in clusters :
          \/ c.state = "PENDING"
             /\ clusters' = (clusters \ {c}) \cup {[c EXCEPT !.state = "RUNNING"]}
          \/ c.state = "RUNNING"
             /\ clusters' = (clusters \ {c}) \cup {[c EXCEPT !.state = "TERMINATED"]}
    /\ UNCHANGED <<clearVars, pollVars, provider, context, nodes, edges, nextId, pc, exc,
                   runs, calls, runVars, embedVars, cluster_seq, emails>>

\* ClusterConfig.name, and the user who runs the setup
AdminClusterName ==
    <<"S", "m", "a", "l", "l", " ", "S", "p", "a", "r", "k", " ", "4", ".", "0">>
AdminEmail == <<"a", "d", "m", "i", "n", At, "x">>

\* _setup_admin_cluster
SetupAdminCluster ==
    UserCommand(emails, get_or_create_cluster(Workspace, AdminClusterName, AdminEmail))

\* the workspace has no cluster yet
InitUsers == InitWith(OperationalGraph)

NextUsers ==
    \/ SetupAdminCluster
    \/ AddUsers
    \/ RemoveUsers
    \/ ClusterChanges

SpecUsers == InitUsers /\ [][NextUsers]_vars

---------------------------------------------------------------------------
(* Properties of the fold and of the graph writes *)

\* _collect_and_deduplicate has returned in the current run
Folded ==
    pc \in {"write_fault_codes", "write_part_numbers", "write_operating_limits",
            "write_maintenance_tasks", "write_ata_chapters", "link", "done"}

\* the observations of one entity type a chunk's bundle reports
ItemsOf(extraction, etype) ==
    IF extraction.entities.k = "obj"
       /\ Get(extraction.entities, etype, L(<<>>)).k = "list"
    THEN Get(extraction.entities, etype, L(<<>>)).v
    ELSE <<>>

\* all observations of one entity type in processing order, each with the
\* position of its chunk
RECURSIVE ReportedFrom(_, _)
ReportedFrom(etype, i) ==
    IF i > Len(all_extractions) THEN <<>>
    ELSE [j \in 1..Len(ItemsOf(all_extractions[i], etype)) |->
            [chunk |-> i, obs |-> ItemsOf(all_extractions[i], etype)[j]]]
         \o ReportedFrom(etype, i + 1)

Reported(etype) == ReportedFrom(etype, 1)

KeyField(etype) ==
    CASE etype = "fault_codes" -> "code"
      [] etype = "part_numbers" -> "number"
      [] etype = "operating_limits" -> "limitId"
      [] etype = "maintenance_tasks" -> "taskId"
      [] etype = "ata_chapters" -> "chapter"

ChunkSource(i) == SourceOf(all_extractions[i])

\* absent, null, empty or whitespace-only
Blank(x) == x.k \in {"absent", "null"} \/ (x.k = "str" /\ Strip(x.v) = <<>>)

\* the observation carries its key field
HasKeyField(etype, obs) ==
    CASE etype = "fault_codes" -> ~Blank(Get(obs, "code", Absent))
      [] etype = "part_numbers" -> ~Blank(Get(obs, "number", Absent))
      [] etype = "operating_limits" ->
             ~Blank(Get(obs, "parameter", Absent)) /\ ~Blank(Get(obs, "regime", Absent))
      [] etype = "maintenance_tasks" -> ~Blank(Get(obs, "description", Absent))
      [] etype = "ata_chapters" -> ~Blank(Get(obs, "chapter", Absent))

\* the canonical key the fold files a keyed observation under
ObsKey(etype, obs, aircraft_type) ==
    CASE etype = "fault_codes" -> S(Strip(PyStr(Get(obs, "code", Absent))))
      [] etype = "part_numbers" -> S(Strip(PyStr(Get(obs, "number", Absent))))
      [] etype = "operating_limits" ->
             _make_limit_id(S(Strip(PyStr(Get(obs, "parameter", Absent)))),
                            S(Strip(PyStr(Get(obs, "regime", Absent)))), aircraft_type)
      [] etype = "maintenance_tasks" ->
             _make_task_id(Get(obs, "task_id", None),
                           Strip(PyStr(Get(obs, "description", Absent))))
      [] etype = "ata_chapters" -> S(Strip(PyStr(Get(obs, "chapter", Absent))))

\* the keyed observations merged into the record with the given key
MergedInto(etype, key) ==
    SelectSeq(Reported(etype),
              LAMBDA r : /\ HasKeyField(etype, r.obs)
                         /\ ObsKey(etype, r.obs, all_extractions[r.chunk].aircraftType)
                              = key)

RECURSIVE SourceCount(_)
SourceCount(recs) ==
    IF recs = <<>> THEN 0 ELSE Len(Head(recs).sources) + SourceCount(Tail(recs))

UniqueKeys(recs, field) ==
    \A i, j \in 1..Len(recs) : recs[i][field] = recs[j][field] => i = j

\* label and key property of the nodes each writer merges
EntityLabels ==
    [FaultCode |-> "code", PartNumber |-> "number", OperatingLimit |-> "limitId",
     MaintenanceTask |-> "taskId", ATAChapter |-> "chapter"]

\* the chunks of the current run whose LLM call failed are left out
RECURSIVE SurvivingFrom(_)
SurvivingFrom(i) ==
    IF i > Len(all_extractions) THEN <<>>
    ELSE (IF responses[i] \in Failures THEN <<>> ELSE <<all_extractions[i]>>)
         \o SurvivingFrom(i + 1)

\* C1: a chunk whose LLM call raises or returns undecodable text yields the
\* empty bundle, and the fold of the run equals the fold of the run without
\* the failed chunks
C1_SoftFailIsolation ==
    /\ \A i \in 1..Len(responses) :
          responses[i] \in Failures => all_extractions[i].entities = EMPTY_RESULT
    /\ Folded => Ok(deduplicated) = _collect_and_deduplicate(SurvivingFrom(1))

C1_Witness ==
    /\ Folded
    /\ Len(responses) = 2
    /\ responses[1] = Content(Exc("JSONDecodeError"))
    /\ Len(deduplicated.fault_codes) = 1
    /\ deduplicated.fault_codes[1].sources = <<ChunkSource(2)>>

\* C2: whatever the LLM answers, run_extraction never stops with an exception
C2_NeverAborts == pc # "raised"

\* C3: no two records of a deduplicated list share a key, and no two nodes of
\* an entity label share the key property
C3_OnePerKey ==
    /\ \A etype \in AllKeys : UniqueKeys(deduplicated[etype], KeyField(etype))
    /\ \A n, m \in nodes :
          /\ n.label = m.label
          /\ n.label \in DOMAIN EntityLabels
          /\ n.props[EntityLabels[n.label]] = m.props[EntityLabels[m.label]]
          => n.id = m.id

C3_Witness ==
    /\ pc = "done"
    /\ runs = 2
    /\ Len(deduplicated.fault_codes) = 2
    /\ \E i \in 1..2 : Len(deduplicated.fault_codes[i].sources) = 2
    /\ Cardinality(Labelled(Store, "FaultCode")) = 2
    /\ Cardinality(Labelled(Store, "OperatingLimit")) = 2

\* C4: an observation without its key field adds no record and no source,
\* and no record has the empty string as key
C4_KeylessDiscarded ==
    Folded =>
      \A etype \in AllKeys :
          /\ SourceCount(deduplicated[etype])
               = Len(SelectSeq(Reported(etype), LAMBDA r : HasKeyField(etype, r.obs)))
          /\ \A i \in 1..Len(deduplicated[etype]) :
                deduplicated[etype][i][KeyField(etype)] # S(<<>>)

Range(s) == {s[i] : i \in 1..Len(s)}

\* the free-text field of each entity type that has one
TextField ==
    [fault_codes |-> "description", maintenance_tasks |-> "description",
     ata_chapters |-> "title"]

\* the free text an observation supplies, as the fold reads it
ObsText(etype, obs) ==
    IF Get(obs, TextField[etype], S(<<>>)).k # "str" THEN <<>>
    ELSE IF etype = "maintenance_tasks" THEN Strip(Get(obs, TextField[etype], S(<<>>)).v)
    ELSE Get(obs, TextField[etype], S(<<>>)).v

\* C5: a record's free-text field is at least as long as the text of every
\* observation merged into it
C5_FreeTextConvergence ==
    Folded =>
      \A etype \in DOMAIN TextField :
        \A rec \in Range(deduplicated[etype]) :
          \A r \in Range(MergedInto(etype, rec[KeyField(etype)])) :
              Len(rec[TextField[etype]].v) >= Len(ObsText(etype, r.obs))

\* the value of the last observation that supplies a non-null one
RECURSIVE LastNonNull(_, _)
LastNonNull(merged, field) ==
    IF merged = <<>> THEN None
    ELSE IF Get(merged[Len(merged)].obs, field, None) # None
    THEN Get(merged[Len(merged)].obs, field, None)
    ELSE LastNonNull(SubSeq(merged, 1, Len(merged) - 1), field)

\* C6: min_value and max_value of a merged operating limit are those of the
\* last observation with a non-null value, and null when there is none
C6_LastNonNullWins ==
    Folded =>
      \A rec \in Range(deduplicated.operating_limits) :
          /\ rec.min_value
               = LastNonNull(MergedInto("operating_limits", rec.limitId), "min_value")
          /\ rec.max_value
               = LastNonNull(MergedInto("operating_limits", rec.limitId), "max_value")

C6_Witness ==
    /\ Folded
    /\ responses = <<Content(Bundle("operating_limits",
                        L(<<LimitObs(S(<<"E","G","T">>), S(<<"t","a","k","e","o","f","f">>), N(5), N(9))>>))),
                     Content(Bundle("operating_limits",
                        L(<<LimitObs(S(<<"E","G","T">>), S(<<"t","a","k","e","o","f","f">>), None, N(0))>>)))>>
    /\ Len(deduplicated.operating_limits) = 1
    /\ deduplicated.operating_limits[1].min_value = N(5)
    /\ deduplicated.operating_limits[1].max_value = N(0)

\* C7: the sources of a record are the chunks that reported its key, each once
C7_OneSourcePerChunk ==
    Folded =>
      \A etype \in AllKeys :
        \A rec \in Range(deduplicated[etype]) :
          /\ \A i, j \in 1..Len(rec.sources) : rec.sources[i] = rec.sources[j] => i = j
          /\ Range(rec.sources)
               = {ChunkSource(r.chunk) : r \in Range(MergedInto(etype, rec[KeyField(etype)]))}

\* two chunks, A then B, each report the fault code once
ReportedByTwoChunks(merged) == Len(merged) = 2 /\ merged[1].chunk # merged[2].chunk

Longer(a, b) == IF Len(b.v) > Len(a.v) THEN b ELSE a

FirstSeverity(merged) == Get(merged[1].obs, "severity_levels", L(<<>>))

LastSuppliedSeverity(merged) ==
    Get(merged[2].obs, "severity_levels", FirstSeverity(merged))

LongerAndBothSources(rec, merged) ==
    /\ rec.description = Longer(Get(merged[1].obs, "description", S(<<>>)),
                                Get(merged[2].obs, "description", S(<<>>)))
    /\ rec.sources = <<ChunkSource(merged[1].chunk), ChunkSource(merged[2].chunk)>>

\* C8: a fault code reported by chunk A and then by chunk B has the longer
\* description, sources [A, B] and the severity list of A, the first observation
C8_FirstSeverityKept ==
    Folded =>
      \A rec \in Range(deduplicated.fault_codes) :
        ReportedByTwoChunks(MergedInto("fault_codes", rec.code)) =>
          /\ LongerAndBothSources(rec, MergedInto("fault_codes", rec.code))
          /\ rec.severity_levels = FirstSeverity(MergedInto("fault_codes", rec.code))

\* C8 as claimed: the severity list is that of the last observation supplying one
C8_LastSeverityWins ==
    Folded =>
      \A rec \in Range(deduplicated.fault_codes) :
        ReportedByTwoChunks(MergedInto("fault_codes", rec.code)) =>
          /\ LongerAndBothSources(rec, MergedInto("fault_codes", rec.code))
          /\ rec.severity_levels
               = LastSuppliedSeverity(MergedInto("fault_codes", rec.code))

C8_Witness ==
    /\ Folded
    /\ responses = <<Content(Bundle("fault_codes",
                        L(<<FaultObs(S(<<"F","1">>), S(<<"a","b">>), MINOR)>>))),
                     Content(Bundle("fault_codes",
                        L(<<FaultObs(S(<<"F","1">>), S(<<"a","b","c","d">>), CRITICAL)>>)))>>
    /\ Len(deduplicated.fault_codes) = 1
    /\ deduplicated.fault_codes[1].description = S(<<"a","b","c","d">>)
    /\ deduplicated.fault_codes[1].severity_levels = MINOR
    /\ Len(deduplicated.fault_codes[1].sources) = 2

SlugOf(chars) == Lower(ReplaceSpace(Strip(chars)))

ExpectedLimitId(obs, aircraft_type) ==
    S(SlugOf(Get(obs, "parameter", Absent).v) \o <<"_">>
      \o SlugOf(Get(obs, "regime", Absent).v) \o <<"_">>
      \o SlugOf(aircraft_type.v))

KeyedLimits ==
    {r \in Range(Reported("operating_limits")) : HasKeyField("operating_limits", r.obs)}

SameParameterAndRegime(a, b) ==
    /\ Strip(Get(a, "parameter", Absent).v) = Strip(Get(b, "parameter", Absent).v)
    /\ Strip(Get(a, "regime", Absent).v) = Strip(Get(b, "regime", Absent).v)

\* C9: an operating limit is filed under the slug of parameter, regime and
\* the aircraft type of its chunk's document, in a record of that aircraft
\* type, and the same parameter and regime under two aircraft types give two keys
C9_AircraftScopedKeys ==
    Folded =>
      /\ \A r \in KeyedLimits :
           \E rec \in Range(deduplicated.operating_limits) :
              /\ rec.limitId = ExpectedLimitId(r.obs, chunks[r.chunk].aircraftType)
              /\ rec.aircraftType = chunks[r.chunk].aircraftType
              /\ ChunkSource(r.chunk) \in Range(rec.sources)
      /\ \A r1, r2 \in KeyedLimits :
           /\ SameParameterAndRegime(r1.obs, r2.obs)
           /\ chunks[r1.chunk].aircraftType # chunks[r2.chunk].aircraftType
           => \A rec \in Range(deduplicated.operating_limits) :
                 ~ /\ ChunkSource(r1.chunk) \in Range(rec.sources)
                   /\ ChunkSource(r2.chunk) \in Range(rec.sources)

C9_Witness ==
    /\ Folded
    /\ Len(chunks) = 2
    /\ chunks[1].aircraftType # chunks[2].aircraftType
    /\ Len(deduplicated.operating_limits) = 2
    /\ \A i \in 1..2 : /\ deduplicated.operating_limits[i].parameter = S(<<"E","G","T">>)
                       /\ deduplicated.operating_limits[i].regime = S(<<"t","a","k","e","o","f","f">>)
    /\ deduplicated.operating_limits[1].limitId = S(<<"e","g","t","_","t","a","k","e","o","f","f","_","a","3","2","0","-","2","0","0">>)
    /\ deduplicated.operating_limits[2].limitId = S(<<"e","g","t","_","t","a","k","e","o","f","f","_","a","3","2","1","n","e","o">>)

FirstChars(chars, n) == [i \in 1..(IF Len(chars) < n THEN Len(chars) ELSE n) |-> chars[i]]

\* the key a keyed task observation is expected under: its trimmed task id
\* when it has a non-empty one, else the slug of the first SlugLen characters
\* of its trimmed description
ExpectedTaskId(obs) ==
    IF Get(obs, "task_id", None).k = "str" /\ Get(obs, "task_id", None).v # <<>>
    THEN S(Strip(Get(obs, "task_id", None).v))
    ELSE S(SlugOf(FirstChars(Strip(Get(obs, "description", Absent).v), SlugLen)))

KeyedTasks ==
    {r \in Range(Reported("maintenance_tasks")) : HasKeyField("maintenance_tasks", r.obs)}

\* C10: every keyed task observation is in the record of its expected key,
\* and there are as many records as distinct expected keys
C10_TaskKeyDerivation ==
    Folded =>
      /\ \A r \in KeyedTasks :
           \E rec \in Range(deduplicated.maintenance_tasks) :
              /\ rec.taskId = ExpectedTaskId(r.obs)
              /\ ChunkSource(r.chunk) \in Range(rec.sources)
      /\ Len(deduplicated.maintenance_tasks)
           = Cardinality({ExpectedTaskId(r.obs) : r \in KeyedTasks})

C10_Witness ==
    /\ Folded
    /\ responses = <<Content(Bundle("maintenance_tasks", L(<<TaskObs(Absent, S(LongA))>>))),
                     Content(Bundle("maintenance_tasks", L(<<TaskObs(Absent, S(LongB))>>)))>>
    /\ Len(deduplicated.maintenance_tasks) = 1
    /\ deduplicated.maintenance_tasks[1].taskId = S(Repeat("x", SlugLen - 1))
    /\ Len(deduplicated.maintenance_tasks[1].sources) = 2


---------------------------------------------------------------------------
(* Properties of the graph writers and of the cross-linker *)

\* the five writers of run_extraction, in its order
WriteAll(st, d) ==
    _write_ata_chapters(
        _write_maintenance_tasks(
            _write_operating_limits(
                _write_part_numbers(
                    _write_fault_codes(st, d.fault_codes),
                    d.part_numbers),
                d.operating_limits),
            d.maintenance_tasks),
        d.ata_chapters)

EntityNodes == {n \in nodes : n.label \in DOMAIN EntityLabels}

EdgesOfType(type) == {e \in edges : e.type = type}

\* C11: once the five writers have run, running them again with the same
\* deduplicated records leaves nodes, edges and the id counter as they are,
\* and no two DOCUMENTED_IN edges join the same entity and chunk
C11_WriterIdempotence ==
    pc = "link" =>
        /\ WriteAll(Store, deduplicated) = Store
        /\ \A e, f \in EdgesOfType("DOCUMENTED_IN") :
               e.src = f.src /\ e.dst = f.dst => e.id = f.id

\* a second run has overwritten an entity written by the first, and an entity
\* has provenance edges to two chunks
C11_Witness ==
    /\ pc = "link"
    /\ runs = 2
    /\ \E n \in EntityNodes :
          Cardinality({e \in EdgesOfType("DOCUMENTED_IN") : e.src = n.id}) = 2
    /\ \E fc \in Labelled(Store, "FaultCode") :
          /\ fc.props.code = S(<<"F","1">>)
          /\ fc.props.description = S(<<"a","b","c","d">>)
    /\ Cardinality(EntityNodes) >= 5


WriterStep(etype) == pc = WritePc[etype]

\* in the next state every record of the type has its node, with the
\* properties of the record
Upserted(etype) ==
    \A i \in 1..Len(deduplicated[etype]) :
        \E n \in nodes' :
            /\ n.label = WriterLabel[etype]
            /\ n.props = WriterBatch(etype, deduplicated[etype])[i].set
                         @@ WriterBatch(etype, deduplicated[etype])[i].key

\* C12: a step adds DOCUMENTED_IN edges only as the second pass of a writer
\* whose upsert has written every record of its type, and a writer that
\* raises adds no edge; every DOCUMENTED_IN edge starts at an entity node and
\* ends at a chunk
C12_TwoPassOrdering ==
    [][/\ \A etype \in AllKeys :
            WriterStep(etype) /\ pc' = "raised" => edges' = edges
       /\ (\E e \in edges' \ edges : e.type = "DOCUMENTED_IN") =>
            \E etype \in AllKeys :
                /\ WriterStep(etype)
                /\ pc' = AfterWrite[etype]
                /\ Upserted(etype)
                /\ \A e \in edges' \ edges :
                      /\ e.type = "DOCUMENTED_IN"
                      /\ \E n \in nodes' :
                            n.id = e.src /\ n.label = WriterLabel[etype]
       /\ \A e \in edges' :
            e.type = "DOCUMENTED_IN" =>
                /\ \E n \in nodes' : n.id = e.src /\ n.label \in DOMAIN EntityLabels
                /\ \E c \in nodes' : c.id = e.dst /\ c.label = "Chunk"]_vars

\* the fault-code upsert of a second run raised: the node of F1 still has the
\* description of the first run, and the chunk the second run saw it in has
\* no provenance edge from it
C12_Witness ==
    /\ pc = "raised"
    /\ exc = "ServiceUnavailable"
    /\ runs = 2
    /\ \E r \in Range(deduplicated.fault_codes) :
          \E n \in Labelled(Store, "FaultCode") :
              /\ n.props.code = r.code
              /\ n.props.description # r.description
              /\ \E c \in Labelled(Store, "Chunk") :
                    /\ c.props.documentId = r.sources[1].documentId
                    /\ c.props.index = r.sources[1].chunkIndex
                    /\ ~HasEdge(Store, "DOCUMENTED_IN", n, c)


---------------------------------------------------------------------------
(* Properties of chunk materialisation and of the embedding pass *)

NodeOf(st, id) == CHOOSE n \in st.nodes : n.id = id

\* a store without element ids: nodes by label and properties, edges by type
\* and the nodes they join
Shape(st) ==
    [nodes |-> {[label |-> n.label, props |-> n.props] : n \in st.nodes},
     edges |-> {[type |-> e.type,
                 src |-> [label |-> NodeOf(st, e.src).label,
                          props |-> NodeOf(st, e.src).props],
                 dst |-> [label |-> NodeOf(st, e.dst).label,
                          props |-> NodeOf(st, e.dst).props]] : e \in st.edges},
     count |-> <<Cardinality(st.nodes), Cardinality(st.edges)>>]

\* C13: for the windows about to be written, every batch size from 1 to
\* MaxBatch, and the program's own BATCH_SIZE, leave the same nodes and the
\* same edges as batch size 1
C13_BatchSizeIndependence ==
    pc = "create_chunks" =>
        /\ \A size \in 2..MaxBatch :
              Shape(CreateChunksInBatches(Store, DOCUMENTS[doc_pos], split_chunks, size))
              = Shape(CreateChunksInBatches(Store, DOCUMENTS[doc_pos], split_chunks, 1))
        /\ Shape(create_chunks_and_relationships(Store, DOCUMENTS[doc_pos], split_chunks))
           = Shape(CreateChunksInBatches(Store, DOCUMENTS[doc_pos], split_chunks, 1))

\* three windows: with batch size 2 the pair (1, 2) joins a chunk of the
\* first batch and a chunk of the second
C13_Witness ==
    /\ pc = "create_chunks"
    /\ Len(split_chunks) = 3
    /\ MaxBatch >= 2
    /\ Cardinality({e \in CreateChunksInBatches(Store, DOCUMENTS[doc_pos],
                                                 split_chunks, 2).edges :
                       e.type = "NEXT_CHUNK"} \ edges) = 2

DocChunks(ns, doc_id) ==
    {c \in ns : c.label = "Chunk" /\ c.props.documentId = doc_id}

\* the NEXT_CHUNK edges at a chunk of the document, as pairs of chunk indexes
ChainOf(ns, es, doc_id) ==
    {e \in es : /\ e.type = "NEXT_CHUNK"
                /\ \E c \in DocChunks(ns, doc_id) : e.src = c.id \/ e.dst = c.id}

IndexAt(ns, doc_id, id) ==
    IF \E c \in DocChunks(ns, doc_id) : c.id = id
    THEN (CHOOSE c \in DocChunks(ns, doc_id) : c.id = id).props.index
    ELSE -1

\* C14: when create_chunks_and_relationships writes n windows of a document
\* that has no chunk in the store, the document then has n chunks with the
\* indexes 0..n-1 and its NEXT_CHUNK edges are exactly the n-1 edges from
\* index i to index i+1, all between chunks of the document
C14_ChainIntegrity ==
    [][pc = "create_chunks"
       /\ DocChunks(nodes, DOCUMENTS[doc_pos].document_id) = {}
       => /\ pc' = "embed_query"
          /\ {c.props.index : c \in DocChunks(nodes', DOCUMENTS[doc_pos].document_id)}
             = 0..(Len(split_chunks) - 1)
          /\ Cardinality(DocChunks(nodes', DOCUMENTS[doc_pos].document_id))
             = Len(split_chunks)
          /\ {<<IndexAt(nodes', DOCUMENTS[doc_pos].document_id, e.src),
                IndexAt(nodes', DOCUMENTS[doc_pos].document_id, e.dst)>> :
                 e \in ChainOf(nodes', edges', DOCUMENTS[doc_pos].document_id)}
             = {<<i, i + 1>> : i \in 0..(Len(split_chunks) - 2)}
          /\ Cardinality(ChainOf(nodes', edges', DOCUMENTS[doc_pos].document_id))
             = Len(split_chunks) - 1]_vars

\* the chain of a document with three windows has just been written on a
\* store that held no chunk of it, next to the chains of other documents
C14_Witness ==
    /\ pc = "embed_query"
    /\ ids = <<>>
    /\ Len(split_chunks) = 3
    /\ Len(chunk_data) = 3
    /\ doc_pos = 2
    /\ Cardinality(ChainOf(nodes, edges, DOCUMENTS[2].document_id)) = 2
    /\ ChainOf(nodes, edges, DOCUMENTS[1].document_id) # {}
    /\ DocChunks(nodes, DOCUMENTS[3].document_id) = {}

\* C20: an embedding call that raises is absorbed: process_document does not
\* stop with the exception of the embedding provider
C20_EmbeddingFailureAbsorbed ==
    pc = "raised" => exc # "APIConnectionError"


---------------------------------------------------------------------------
(* Properties of the clear operations and of the operational graph *)

EnrichmentLabels ==
    {"Document", "Chunk", "FaultCode", "PartNumber", "OperatingLimit",
     "MaintenanceTask", "ATAChapter"}

\* C15: a step of the clear-enrichment operation leaves no Document node, no
\* Chunk node and no entity node of the five types
C15_ClearRemovesEnrichment ==
    [][ClearEnrichment => \A n \in nodes' : n.label \notin EnrichmentLabels]_vars

OperationalLabels == {"Aircraft", "System", "Component", "Sensor", "MaintenanceEvent"}

Operational(ns) == {n \in ns : n.label \in OperationalLabels}

\* the edges whose two ends are operational nodes
Inner(ns, es) ==
    {e \in es : \A end \in {e.src, e.dst} : \E n \in Operational(ns) : n.id = end}

\* the edges with exactly one end at an operational node
CrossLinks(ns, es) ==
    {e \in es : /\ \E n \in Operational(ns) : n.id = e.src \/ n.id = e.dst
                /\ \E n \in ns \ Operational(ns) : n.id = e.src \/ n.id = e.dst}

CrossLinkTypes == {"CLASSIFIED_AS", "IDENTIFIED_BY", "HAS_LIMIT"}

\* C16: no step changes the set of operational nodes (ids, labels,
\* properties) or the set of edges between operational nodes; an edge at an
\* operational node that a step adds or removes is a cross-link edge to an
\* enrichment node
C16_OperationalFrame ==
    [][/\ Operational(nodes') = Operational(nodes)
       /\ Inner(nodes', edges') = Inner(nodes, edges)
       /\ \A e \in (CrossLinks(nodes, edges) \ CrossLinks(nodes', edges'))
                   \cup (CrossLinks(nodes', edges') \ CrossLinks(nodes, edges)) :
             e.type \in CrossLinkTypes]_vars

\* clear_enrichment_data has run after an extraction run: the operating
\* limits the run wrote are gone with their HAS_LIMIT edges, cross-links to
\* the entities that are left remain, the operational graph is as loaded
C16_Witness ==
    /\ pc = "done"
    /\ runs = 2
    /\ Len(all_extractions) = 0
    /\ Labelled(Store, "OperatingLimit") = {}
    /\ Labelled(Store, "Chunk") = {}
    /\ Labelled(Store, "PartNumber") # {}
    /\ \E e \in CrossLinks(nodes, edges) : e.type = "IDENTIFIED_BY"
    /\ \A e \in edges : e.type # "HAS_LIMIT"
    /\ Operational(nodes) = OperationalNodes
    /\ Inner(nodes, edges) = OperationalEdges


---------------------------------------------------------------------------
(* Properties of the cross-linker *)

StoreNext == [nodes |-> nodes', edges |-> edges', nextId |-> nextId']

\* lower-cased text of a property, the empty text when it is not a string
LowerText(x) == IF x.k = "str" THEN Lower(x.v) ELSE <<>>

\* C17: after the cross-linker has run, a MaintenanceEvent has a
\* CLASSIFIED_AS edge to a FaultCode exactly when its fault text is not empty
\* and is contained, ignoring case, in the description of the FaultCode
C17_EventLinkedByContainment ==
    [][Link /\ pc' = "done" =>
         \A me \in Labelled(StoreNext, "MaintenanceEvent"),
            fc \in Labelled(StoreNext, "FaultCode") :
             HasEdge(StoreNext, "CLASSIFIED_AS", me, fc)
             <=> /\ Present(me.props.fault)
                 /\ IsSubstring(LowerText(me.props.fault),
                                LowerText(fc.props.description))]_vars

\* C19: a run of the cross-linker deletes no node and no edge and changes no
\* node; after it no two edges have the same type and ends, and a further run
\* on the store it leaves changes nothing
C19_LinkerIdempotentAdditive ==
    [][Link =>
         /\ nodes' = nodes
         /\ edges \subseteq edges'
         /\ \A e, f \in edges' :
               e.type = f.type /\ e.src = f.src /\ e.dst = f.dst => e.id = f.id
         /\ _link_to_existing_graph(StoreNext).st = StoreNext]_vars

\* the cross-linker has run twice and edges of its four types are in the store
C19_Witness ==
    /\ pc = "done"
    /\ runs = 2
    /\ Len(all_extractions) > 0
    /\ \A type \in {"CLASSIFIED_UNDER", "CLASSIFIED_AS", "IDENTIFIED_BY", "HAS_LIMIT"} :
          EdgesOfType(type) # {}
    /\ Cardinality(EdgesOfType("CLASSIFIED_UNDER")) >= 3


\* some aircraft that owns the sensor has the model the limit is recorded for
OwnerHasModel(st, s, ol) ==
    \E p \in SensorPaths(st) : p[2] = s /\ p[1].props.model = ol.props.aircraftType

LimitEdges(st) ==
    {p \in Labelled(st, "Sensor") \X Labelled(st, "OperatingLimit") :
        HasEdge(st, "HAS_LIMIT", p[1], p[2])}

\* C18 as stated: in every state, a HAS_LIMIT edge joins a sensor and a limit
\* only if the sensor's type is the limit's parameter and an aircraft that
\* owns the sensor has the limit's aircraft type as model
C18_LimitEdgesMatch ==
    \A p \in LimitEdges(Store) :
        /\ p[2].props.parameter = p[1].props.type
        /\ OwnerHasModel(Store, p[1], p[2])

\* C18 amended: after every step, each HAS_LIMIT edge joins a sensor and a
\* limit whose aircraft type is the model of an aircraft that owns the
\* sensor, and each HAS_LIMIT edge the step has added joins a sensor and a
\* limit whose parameter is the sensor's type
C18_LimitEdgesScoped ==
    [][/\ \A p \in LimitEdges(StoreNext) : OwnerHasModel(StoreNext, p[1], p[2])
       /\ \A p \in LimitEdges(StoreNext) :
             ~(\E q \in LimitEdges(Store) : q[1].id = p[1].id /\ q[2].id = p[2].id)
             => /\ pc = "link"
                /\ p[2].props.parameter = p[1].props.type]_vars

\* limits with the parameter EGT exist for two aircraft types; the sensor of
\* the A320-200 is linked to the limit of the A320-200 only, the sensor of the
\* B737-800 to none
C18_Witness ==
    /\ pc = "done"
    /\ Cardinality({ol.props.aircraftType : ol \in
                      {l \in Labelled(Store, "OperatingLimit") :
                          l.props.parameter = S(<<"E","G","T">>)}}) = 2
    /\ Cardinality(LimitEdges(Store)) = 1
    /\ \E p \in LimitEdges(Store) :
          /\ p[1].props.sensor_id = "SN1"
          /\ p[2].props.aircraftType = DOCUMENTS[1].aircraft_type


---------------------------------------------------------------------------
(* Properties of whole runs *)

\* C21: when a store call raises in the writer of an entity type, the
\* exception leaves run_extraction; the step changes no node of another
\* label and removes no edge, so what the earlier writers wrote stays; and a
\* run that has raised takes no further step: no later type is written and
\* the cross-linker does not run
C21_StoreFailureFatal ==
    [][/\ \A etype \in AllKeys :
            WriterStep(etype) /\ exc' # "none" =>
                /\ pc' = "raised"
                /\ \A n \in nodes : n.label # WriterLabel[etype] => n \in nodes'
                /\ \A m \in nodes' \ nodes : m.label = WriterLabel[etype]
                /\ edges \subseteq edges'
       /\ pc = "raised" => UNCHANGED <<nodes, edges, nextId, pc, exc>>]_vars

\* the operating-limit writer of a first run raised: fault codes and part
\* numbers are in the store with their provenance edges, no operating limit,
\* maintenance task or ATA chapter is, and no cross-link exists
C21_Witness ==
    /\ pc = "raised"
    /\ exc = "ServiceUnavailable"
    /\ runs = 1
    /\ \A etype \in AllKeys : deduplicated[etype] # <<>>
    /\ \A label \in {"FaultCode", "PartNumber"} :
          \E n \in Labelled(Store, label) :
              \E e \in edges : e.type = "DOCUMENTED_IN" /\ e.src = n.id
    /\ \A label \in {"OperatingLimit", "MaintenanceTask", "ATAChapter"} :
          Labelled(Store, label) = {}
    /\ \A e \in edges :
          e.type \notin {"CLASSIFIED_UNDER", "CLASSIFIED_AS", "IDENTIFIED_BY", "HAS_LIMIT"}

\* the steps of process_document
EmbedSteps == {"split_text", "create_document", "create_chunks", "embed_query"}

ChunkAt(st, doc_id, index) ==
    {c \in Labelled(st, "Chunk") :
        c.props.documentId = doc_id /\ c.props.index = index}

\* the store holds the document with one chunk per window, in window order,
\* each with its text, its embedding and its edge to the document, and the
\* NEXT_CHUNK edge between each pair of adjacent windows
Materialised(st, meta, texts) ==
    /\ \E d \in Labelled(st, "Document") :
          /\ d.props.documentId = meta.document_id
          /\ \A i \in 1..Len(texts) :
                \E c \in ChunkAt(st, meta.document_id, i - 1) :
                    /\ c.props.text = texts[i]
                    /\ "embedding" \in DOMAIN c.props
                    /\ c.props.embedding = Vector(texts[i])
                    /\ HasEdge(st, "FROM_DOCUMENT", c, d)
    /\ \A i \in 1..(Len(texts) - 1) :
          \E a \in ChunkAt(st, meta.document_id, i - 1),
             b \in ChunkAt(st, meta.document_id, i) :
              HasEdge(st, "NEXT_CHUNK", a, b)

\* position of a fetched row in ORDER BY documentId, index
RowRank(row) == <<DocOrder(row.documentId), row.chunkIndex>>

RankBefore(a, b) == a[1] < b[1] \/ (a[1] = b[1] /\ a[2] < b[2])

\* C22: the position in the registry starts at the first document and moves
\* on by one, only in a step after which the document just processed is
\* materialised in full; a step of process_document writes only nodes of the
\* document it works on; create_chunks_and_relationships gives window i the
\* index i - 1 and creates new chunks in index order; fetch_chunks returns
\* rows in ascending (documentId, index) order and extraction visits them in
\* that order
C22_ProcessingOrder ==
    [][/\ doc_pos' # doc_pos =>
            \/ pc \in Commands /\ pc' = "split_text" /\ doc_pos' = 1
            \/ /\ doc_pos' = doc_pos + 1
               /\ pc = "embed_query"
               /\ Materialised(StoreNext, DOCUMENTS[doc_pos], split_chunks)
       /\ pc \in EmbedSteps =>
            /\ doc_pos \in 1..Len(DOCUMENTS)
            /\ \A m \in nodes' \ nodes :
                  /\ m.label \in {"Document", "Chunk"}
                  /\ m.props.documentId = DOCUMENTS[doc_pos].document_id
       /\ pc = "create_chunks" =>
            /\ \A i \in 1..Len(split_chunks) :
                  \E c \in ChunkAt(StoreNext, DOCUMENTS[doc_pos].document_id, i - 1) :
                      c.props.text = split_chunks[i]
            /\ \A c, d \in {n \in nodes' : n.id >= nextId} :
                  c.props.index < d.props.index => c.id < d.id
       /\ pc' = "extract" /\ pc # "extract" =>
            \A i, j \in 1..Len(chunks') :
                i < j => RankBefore(RowRank(chunks'[i]), RowRank(chunks'[j]))
       /\ pc = "extract" =>
            /\ chunks' = chunks
            /\ Len(all_extractions') = Len(all_extractions) + 1
            /\ all_extractions'[Len(all_extractions')].documentId
                 = chunks[Len(all_extractions')].documentId
            /\ all_extractions'[Len(all_extractions')].chunkIndex
                 = chunks[Len(all_extractions')].chunkIndex]_vars

\* an embed pass after clear_documents has processed the three documents of
\* the registry, and each is materialised
C22_Witness ==
    /\ pc = "done"
    /\ runs = 2
    /\ doc_pos = Len(DOCUMENTS) + 1
    /\ calls = Len(DOCUMENTS)
    /\ nextId > MaterialiseAll(OperationalGraph, DOCUMENTS, MaxWindows).nextId
    /\ \A i \in 1..Len(DOCUMENTS) :
          Materialised(Store, DOCUMENTS[i], Windows(DOCUMENTS[i], 1))


---------------------------------------------------------------------------
(* Properties of the pipeline across a reset *)

\* the same number of nodes per label and of edges per type
CountsEqual(a, b) ==
    /\ \A label \in {n.label : n \in a.nodes \cup b.nodes} :
          Cardinality(Labelled(a, label)) = Cardinality(Labelled(b, label))
    /\ \A type \in {e.type : e \in a.edges \cup b.edges} :
          Cardinality({e \in a.edges : e.type = type})
            = Cardinality({e \in b.edges : e.type = type})

\* an extraction run over the whole corpus has just ended, and the corpus is
\* materialised in full
PipelineComplete ==
    /\ pc = "done"
    /\ Len(all_extractions) = Len(DOCUMENTS) * provider.windows
    /\ Cardinality(Labelled(Store, "Chunk")) = Len(all_extractions)
    /\ \A i \in 1..Len(DOCUMENTS) :
          Materialised(Store, DOCUMENTS[i], Windows(DOCUMENTS[i], provider.windows))

WriteSteps == {WritePc[etype] : etype \in AllKeys}

StoreChanges == nodes' # nodes \/ edges' # edges

\* C24: a step of run_extraction changes the store only as one of the five
\* writers or as the cross-linker; when the first writer starts, every
\* fetched chunk has been extracted and deduplicated holds the fold of all
\* extractions; the writers follow each other in the fixed order, each
\* writing only nodes of its own label, and the cross-linker starts only
\* after the last of them; a run that fetches no chunk ends at once and
\* leaves the store as it is
C24_WholeCorpusBeforeWrite ==
    [][/\ StoreChanges => pc \in WriteSteps \cup {"link"}
       /\ pc' = "write_fault_codes" =>
            /\ pc = "dedup"
            /\ Len(all_extractions) = Len(chunks)
            /\ deduplicated' = _collect_and_deduplicate(all_extractions).v
       /\ \A etype \in AllKeys :
            WriterStep(etype) =>
                /\ pc' = AfterWrite[etype]
                /\ deduplicated' = deduplicated
                /\ \A m \in nodes' \ nodes : m.label = WriterLabel[etype]
                /\ \A e \in edges' \ edges : e.type = "DOCUMENTED_IN"
       /\ \A etype \in AllKeys \ {"fault_codes"} :
            pc' = WritePc[etype] =>
                \E before \in AllKeys : WriterStep(before) /\ AfterWrite[before] = pc'
       /\ pc' = "link" => pc = "write_ata_chapters"
       /\ pc = "link" =>
            /\ nodes' = nodes
            /\ \A e \in edges' \ edges :
                  e.type \in CrossLinkTypes \cup {"CLASSIFIED_UNDER"}
       /\ pc \in Commands /\ chunks' = <<>> => pc' = "done" /\ ~StoreChanges]_vars

\* a first run has extracted two chunks and then written and linked entities
\* of the five types; a second run has fetched no chunk and ended
C24_Witness ==
    /\ pc = "done"
    /\ runs = 2
    /\ chunks = <<>>
    /\ \A label \in DOMAIN EntityLabels : Labelled(Store, label) # {}
    /\ Cardinality({e.dst : e \in EdgesOfType("DOCUMENTED_IN")}) = 2
    /\ EdgesOfType("IDENTIFIED_BY") # {}


\* the chunk is one of the sources of the record
SourceOfRecord(rec, c) ==
    \E i \in 1..Len(rec.sources) :
        /\ rec.sources[i].documentId = c.props.documentId
        /\ rec.sources[i].chunkIndex = c.props.index

ProvenanceEdges(n, c) ==
    {e \in edges : e.type = "DOCUMENTED_IN" /\ e.src = n.id /\ e.dst = c.id}

\* C25: when the five writers of a first run have run, every record has its
\* node, and for every record and every chunk of the store there is exactly
\* one DOCUMENTED_IN edge from the node to the chunk when the chunk is among
\* the record's sources, and none otherwise
C25_OneProvenanceEdge ==
    pc = "link" /\ runs = 1 =>
        \A etype \in AllKeys :
            \A i \in 1..Len(deduplicated[etype]) :
                /\ \E n \in Labelled(Store, WriterLabel[etype]) :
                      n.props[WriterKey[etype]]
                        = deduplicated[etype][i][KeyField(etype)]
                /\ \A n \in Labelled(Store, WriterLabel[etype]) :
                      n.props[WriterKey[etype]]
                        = deduplicated[etype][i][KeyField(etype)] =>
                          \A c \in Labelled(Store, "Chunk") :
                              Cardinality(ProvenanceEdges(n, c))
                                = IF SourceOfRecord(deduplicated[etype][i], c)
                                  THEN 1 ELSE 0

\* the writers have run; a fault code names the same chunk twice among its
\* sources, and an ATA chapter has two chunks as sources
C25_Witness ==
    /\ pc = "link"
    /\ runs = 1
    /\ \E rec \in Range(deduplicated.fault_codes) :
          \E i, j \in 1..Len(rec.sources) : i # j /\ rec.sources[i] = rec.sources[j]
    /\ \E rec \in Range(deduplicated.ata_chapters) :
          Cardinality(Range(rec.sources)) = 2
    /\ Cardinality(Labelled(Store, "Chunk")) > 2


\* C26: when create_chunks_and_relationships has returned for a document,
\* also on a store that held chunks of an earlier run with more windows, the
\* chunks of the document are those of the indexes 0..n-1 of the n windows of
\* this run, and the chunk of index n-1 has no outgoing NEXT_CHUNK edge
C26_ChainSurvivesRerun ==
    pc = "embed_query" =>
        /\ {c.props.index : c \in DocChunks(nodes, DOCUMENTS[doc_pos].document_id)}
             = 0..(Len(split_chunks) - 1)
        /\ \A c \in DocChunks(nodes, DOCUMENTS[doc_pos].document_id) :
              c.props.index = Len(split_chunks) - 1 =>
                  ~\E e \in edges : e.type = "NEXT_CHUNK" /\ e.src = c.id


---------------------------------------------------------------------------
(* Properties of the context header *)

StartsWith(text, head) ==
    Len(text) >= Len(head) /\ SubSeq(text, 1, Len(head)) = head

\* C27: ContextPrependingSplitter.run returns as many chunks as the inner
\* splitter, in the same order, each the context followed by the inner text,
\* and the inner chunks themselves when the context is empty; in
\* process_all_documents the context of that step is the line built from the
\* aircraft type and title of the document being processed, and it is the
\* line of no other document
C27_OwnContextHeader ==
    [][pc = "prepend" =>
         /\ Len(split_chunks') = Len(split_chunks)
         /\ \A i \in 1..Len(split_chunks) :
               /\ StartsWith(split_chunks'[i], context)
               /\ SubSeq(split_chunks'[i], Len(context) + 1, Len(split_chunks'[i]))
                    = split_chunks[i]
         /\ context = <<>> => split_chunks' = split_chunks
         /\ doc_pos >= 1 =>
               /\ context = <<"[DOCUMENT CONTEXT] Aircraft Type: ">>
                              \o DOCUMENTS[doc_pos].aircraft_type.v
                              \o <<" | Title: ", DOCUMENTS[doc_pos].title, "\n\n">>
               /\ \A j \in 1..Len(DOCUMENTS) :
                     j # doc_pos =>
                         /\ context # SplitterContext(DOCUMENTS[j])
                         /\ \A i \in 1..Len(split_chunks') :
                               ~StartsWith(split_chunks'[i],
                                           SplitterContext(DOCUMENTS[j]))]_vars

\* the chunks of the third document have been handed over: three chunks,
\* each with the header of the B737-800 manual
C27_Witness ==
    /\ pc = "handed"
    /\ doc_pos = Len(DOCUMENTS)
    /\ Len(split_chunks) = MaxTexts
    /\ \A i \in 1..Len(split_chunks) :
          StartsWith(split_chunks[i], SplitterContext(DOCUMENTS[3]))
    /\ split_chunks[1] # split_chunks[2]


---------------------------------------------------------------------------
(* Properties of the clear loops *)

\* C28: a clear command starts with a total of 0; each of its delete
\* statements removes at most batch_limit nodes and nothing else, and adds
\* exactly the number of nodes it removed to deleted_total, so the total
\* reported at the end is the number of nodes removed; a loop ends at a
\* statement exactly when that statement deleted nothing, which happens
\* only when no node of the loop's labels is left; and every clear command
\* that has started ends
C28_ClearLoopsTerminate ==
    /\ [][/\ (pc \in Commands /\ pc' = "clearing") => deleted_total' = 0
          /\ pc = "clearing" =>
                /\ nodes' \subseteq nodes
                /\ nodes \ nodes' \subseteq Matching(Store, Head(labels_to_clear))
                /\ count' = Cardinality(nodes \ nodes')
                /\ count' <= batch_limit
                /\ deleted_total' = deleted_total + Cardinality(nodes \ nodes')
                /\ (count' = 0) = (Matching(Store, Head(labels_to_clear)) = {})
                /\ (count' = 0) = (labels_to_clear' = Tail(labels_to_clear))
                /\ (count' # 0) = (labels_to_clear' = labels_to_clear)
                /\ (pc' = "done") = (labels_to_clear' = <<>>)]_vars
    /\ (pc = "clearing") ~> (pc = "done" /\ count = 0 /\ labels_to_clear = <<>>)

\* clear_enrichment_data has ended on a store with entities: it took more
\* than two full batches, swept the chunks and the bookkeeping nodes, and
\* left the entities its label list does not name
C28_Witness ==
    /\ pc = "done"
    /\ runs = 1
    /\ labels_to_clear = <<>>
    /\ count = 0
    /\ batch_limit = MaxLimit
    /\ deleted_total > 2 * batch_limit
    /\ Matching(Store, {"Document", "Chunk", "__Entity__", "__KGBuilder__"}) = {}
    /\ Labelled(Store, "FaultCode") # {}

---------------------------------------------------------------------------
(* Properties of poll_until *)

\* ceil(a / b), for a >= 0 and b > 0
Ceil(a, b) == (a + b - 1) \div b

\* C29: check_fn is called only inside a running poll_until and only while
\* the accumulated wait is below timeout_seconds, so never after a return
\* or a raise; a call that reports done ends poll_until at once with that
\* call's result (RUNNING for the cluster, statuses without a pending
\* library for the libraries); an exception of check_fn (the cluster is
\* TERMINATED, ERROR or UNKNOWN, or the client fails) ends it at once with
\* that exception and without a sleep; any other call is followed by a
\* sleep of interval_seconds; TimeoutError is raised only when the wait
\* has reached timeout_seconds, after exactly ceil(timeout_seconds /
\* interval_seconds) calls, and no call count ever exceeds that; and every
\* poll_until that has started returns or raises
C29_PollReturnsOrTimesOut ==
    /\ [][/\ check_calls' > check_calls =>
                /\ pc = "poll"
                /\ elapsed < timeout_seconds
                /\ check_calls' = check_calls + 1
                /\ pc' = "done" =>
                      /\ observed'.reached
                      /\ returned' = ReturnValue(observed'.value)
                      /\ elapsed' = elapsed
                      /\ check_fn = "check_state" => observed'.value = "RUNNING"
                      /\ check_fn = "check_status" =>
                            count_library_states(returned'.value).pending = 0
                /\ ~observed'.reached =>
                      pc' = "raised" /\ exc' = "DatabricksError" /\ elapsed' = elapsed
                /\ (/\ check_fn = "check_state"
                    /\ observed'.reached
                    /\ observed'.value \in {"TERMINATED", "ERROR", "UNKNOWN"}) =>
                      pc' = "raised" /\ exc' = "RuntimeError" /\ elapsed' = elapsed
                /\ (/\ check_fn = "check_state"
                    /\ observed'.reached
                    /\ observed'.value = "RUNNING") => pc' = "done"
                /\ (/\ check_fn = "check_status"
                    /\ observed'.reached
                    /\ count_library_states(observed'.value).pending = 0) => pc' = "done"
                /\ pc' = "poll" => elapsed' = elapsed + interval_seconds
          /\ (pc = "poll" /\ check_calls' = check_calls) =>
                /\ elapsed >= timeout_seconds
                /\ pc' = "raised"
                /\ exc' = "TimeoutError"
                /\ check_calls = Ceil(timeout_seconds, interval_seconds)]_vars
    /\ [](check_fn # "none" => check_calls <= Ceil(timeout_seconds, interval_seconds))
    /\ (pc = "poll") ~> (pc \in {"done", "raised"})

\* wait_for_cluster_running has timed out on a timeout that is no multiple
\* of the interval, after reading a cluster that was still starting
C29_Witness ==
    /\ pc = "raised"
    /\ exc = "TimeoutError"
    /\ check_fn = "check_state"
    /\ timeout_seconds = MaxTimeout
    /\ interval_seconds = MaxInterval
    /\ check_calls = 2
    /\ elapsed > timeout_seconds
    /\ observed = Answered("PENDING")

---------------------------------------------------------------------------
(* Properties of the per-user clusters *)

\* the users of the CSV file of the command that has just run
CsvUsers == {emails[i] : i \in DOMAIN emails}

\* C30: two distinct emails of one CSV file have different cluster names;
\* after a command on the users of a CSV file, no cluster named for one of
\* them is assigned to somebody else; and a command removes only clusters
\* assigned to users of its CSV file
C30_PerUserClusters ==
    /\ [](\A e1, e2 \in CsvUsers :
             e1 # e2 => cluster_name_for_user(e1) # cluster_name_for_user(e2))
    /\ [](\A e \in CsvUsers : \A c \in clusters :
             c.cluster_name = cluster_name_for_user(e) => c.assigned_user = e)
    /\ [][\A c \in clusters :
             (\A d \in clusters' : d.cluster_id # c.cluster_id) =>
                 c.assigned_user \in {emails'[i] : i \in DOMAIN emails'}]_vars
=============================================================================
